---------------------------- MODULE Spec2Model ----------------------------
(***************************************************************************)
(* Model of three parts of the onyxia web console:                         *)
(*   - the vault secrets-manager client                                    *)
(*       (src/src/lib/secondaryAdapters/vaultSecretsManagerClient.ts),     *)
(*   - the catalog search bar and the launcher thunks                      *)
(*       (src/src/app/components/pages/Catalog/SearchBar.tsx).             *)
(* Strings that the code inspects character by character are sequences of  *)
(* one-character strings; slash-separated paths are sequences of segments. *)
(***************************************************************************)
EXTENDS Integers, Sequences, FiniteSets, TLC

VARIABLES
    \* ---- vault secrets-manager client
    engine,              \* params.engine
    evtOidcAccessToken,  \* evtOidcAccessToken.state
    evtVaultToken,       \* evtVaultToken.state
    currentCallCount,    \* call counter of Evt.asyncPipe
    pipeCalls,           \* handlers of asyncPipe at their await of fetchVaultToken
    pipeDropped,         \* results asyncPipe did not post, with evtVaultToken.state then
    memo,                \* memoizee cache of fetchVaultToken, per jwt
    clientTokens,        \* client_token the login exchange returned, per jwt
    loginPosts,          \* number of POST /v1/auth/jwt/login sent, per jwt
    exchangeFailed,      \* the exchange of the current OIDC token was rejected
    requests,            \* requests of axiosInstance, in call order
    nbCalls,             \* number of list/get/put/delete calls made
    \* ---- search bar
    isActive,            \* useState(false): the bar is expanded
    search,              \* useState(""): the search text
    lastSearchChange,    \* last value passed to props.onSearchChange
    sbEvent,             \* the event the search bar handled last
    \* ---- launcher: getInitialFormFields
    ffParams,            \* the parameters of getInitialFormFields
    ffResult,            \* what getInitialFormFields returned
    \* ---- launcher: getXOnyxiaContext
    ctxParams,           \* the store getXOnyxiaContext reads, and what it is answered
    ctxResult,           \* what getXOnyxiaContext returned, and the calls it made
    \* ---- launcher: launch
    launcherState,       \* rootState[name], the state of the launcher
    launches,            \* the calls of launch, in call order
    runs,                \* the calls of initialize, in call order
    lnEvent,             \* what the launcher was asked last, and what it dispatched
    \* ---- CLI translator of the vault client
    trInputs,            \* the translator's parameters, the operation and its inputs
    trResult,            \* what buildCmd returned
    \* ---- launcher: getChartInfos
    ciParams,            \* the parameters of getChartInfos and the catalogs answered
    ciResult             \* what getChartInfos returned, and whether it alerted

vaultVars == << engine, evtOidcAccessToken, evtVaultToken, currentCallCount,
                pipeCalls, pipeDropped, memo, clientTokens, loginPosts, exchangeFailed,
                requests, nbCalls >>

sbVars == << isActive, search, lastSearchChange, sbEvent >>

ffVars == << ffParams, ffResult >>

ctxVars == << ctxParams, ctxResult >>

lnVars == << launcherState, launches, runs, lnEvent >>

inVars == << runs, lnEvent >>

trVars == << trInputs, trResult >>

ciVars == << ciParams, ciResult >>

vars == << vaultVars, sbVars, ffVars, ctxVars, lnVars, trVars, ciVars >>

exceptVault == << sbVars, ffVars, ctxVars, lnVars, trVars, ciVars >>
exceptSb == << vaultVars, ffVars, ctxVars, lnVars, trVars, ciVars >>
exceptFf == << vaultVars, sbVars, ctxVars, lnVars, trVars, ciVars >>
exceptCtx == << vaultVars, sbVars, ffVars, lnVars, trVars, ciVars >>
exceptLn == << vaultVars, sbVars, ffVars, ctxVars, trVars, ciVars >>
exceptTr == << vaultVars, sbVars, ffVars, ctxVars, lnVars, ciVars >>
exceptCi == << vaultVars, sbVars, ffVars, ctxVars, lnVars, trVars >>

-----------------------------------------------------------------------------
(* Generic helpers *)

Undefined == "undefined"

Range(s) == { s[i] : i \in 1..Len(s) }

SeqsUpTo(S, n) == UNION { [1..k -> S] : k \in 0..n }

-----------------------------------------------------------------------------
(* Bounds *)

MaxCalls == 3        \* OIDC token changes seen by asyncPipe, operations being called
MaxTokenChanges == 4 \* OIDC token changes seen by asyncPipe, the tokens alone
MaxRequests == 2     \* secrets-manager operations called while the tokens change
MaxOpsCalls == 1     \* secrets-manager operations called, over every path
MaxPathLen == 2      \* segments of a secret path
MaxSearchLen == 3    \* characters of the search text
MaxDepth == 2           \* nested objects of a values schema
MaxLaunches == 2        \* calls of launch
MaxRuns == 3            \* calls of initialize
MaxVersions == 2        \* versions of a chart
MaxKeys == 2            \* nodes, and leafs, of the result of a list

-----------------------------------------------------------------------------
(* path.join (posix), on slash-separated strings given as their segments:  *)
(* "a/b" is <<"a","b">>, "/a" is <<"","a">>, "a/" is <<"a","">>, "" is     *)
(* <<"">>.                                                                  *)

RECURSIVE normalizeString(_, _, _)
normalizeString(segs, allowAboveRoot, res) ==
    IF segs = << >> THEN res
    ELSE LET seg == Head(segs)
             rest == Tail(segs)
         IN  IF seg = "" \/ seg = "." THEN normalizeString(rest, allowAboveRoot, res)
             ELSE IF seg = ".."
             THEN IF Len(res) > 0 /\ res[Len(res)] # ".."
                  THEN normalizeString(rest, allowAboveRoot, SubSeq(res, 1, Len(res) - 1))
                  ELSE IF allowAboveRoot
                       THEN normalizeString(rest, allowAboveRoot, Append(res, ".."))
                       ELSE normalizeString(rest, allowAboveRoot, res)
             ELSE normalizeString(rest, allowAboveRoot, Append(res, seg))

normalize(path) ==
    LET isAbsolute == Len(path) >= 2 /\ path[1] = ""
        trailingSeparator == Len(path) >= 2 /\ path[Len(path)] = ""
        core == normalizeString(path, ~isAbsolute, << >>)
    IN  IF path = <<"">> THEN <<".">>
        ELSE IF core = << >>
             THEN IF isAbsolute THEN <<"", "">>
                  ELSE IF trailingSeparator THEN <<".", "">> ELSE <<".">>
             ELSE (IF isAbsolute THEN <<"">> ELSE << >>)
                  \o core
                  \o (IF trailingSeparator THEN <<"">> ELSE << >>)

RECURSIVE joinArgs(_)
joinArgs(args) ==
    IF args = << >> THEN << >>
    ELSE IF Head(args) = <<"">> THEN joinArgs(Tail(args))
         ELSE Head(args) \o joinArgs(Tail(args))

pathJoin(args) ==
    LET joined == joinArgs(args)
    IN  IF joined = << >> THEN <<".">> ELSE normalize(joined)

-----------------------------------------------------------------------------
(* The vault secrets-manager client *)

version == "v1"

Engines == {"kv", "onyxia-kv"}
OidcTokens == {"jwt1", "jwt2"}
VaultTokens == {"vt1", "vt2"}
Ops == {"list", "get", "put", "delete"}

PathSegments == {"a", "", ".", ".."}
Paths == SeqsUpTo(PathSegments, MaxPathLen) \ {<< >>}

\* The paths the operations of the client are called on: path.join drops a
\* "." segment as it drops an empty one, so "." is kept as a path of its own.
RequestPaths == { p \in Paths : "." \in Range(p) => Len(p) = 1 }

Secrets == { << >>,
             << [key |-> "k2", value |-> "y"], [key |-> "k1", value |-> "x"] >> }

\* Faulty variant: the API version is left out of the path.
ctxPathJoinFaulty(args) == pathJoin(<< <<engine>> >> \o args)
ctxPathJoin(args) == pathJoin(<< <<version>>, <<engine>> >> \o args)

\* The axios calls one operation of secretsManagerClient makes, before the
\* request interceptor has run.
axiosCalls(op, path, secret) ==
    CASE op = "list" ->
            << [op |-> op, method |-> "GET",
                url |-> ctxPathJoin(<< <<"metadata">>, path >>),
                params |-> << [list |-> "true"] >>, body |-> << >>] >>
      [] op = "get" ->
            << [op |-> op, method |-> "GET",
                url |-> ctxPathJoin(<< <<"data">>, path >>),
                params |-> << >>, body |-> << >>] >>
      [] op = "put" ->
            << [op |-> op, method |-> "PUT",
                url |-> ctxPathJoin(<< <<"data">>, path >>),
                params |-> << >>, body |-> << [data |-> secret] >>] >>
      [] op = "delete" ->
            << [op |-> op, method |-> "DELETE",
                url |-> ctxPathJoin(<< <<"data">>, path >>),
                params |-> << >>, body |-> << >>] >>

\* evtVaultToken.waitFor(nonNullable()): the matcher of the waiting handler.
\* Faulty variant: any state of the event matches, undefined included.
nonNullableFaulty(token) == TRUE
nonNullable(token) == token # Undefined

\* Evt.asyncPipe: the result of an asynchronous operation is posted only if
\* no later event has been piped since it started.
asyncPipeMayPost(thisCallCount) == thisCallCount = currentCallCount

\* Evt.asyncPipe posts the result of a synchronous operation: here [undefined].
\* Faulty variant: nothing is posted, the vault token stays what it was.
asyncOpOfUndefinedFaulty == evtVaultToken
asyncOpOfUndefined == Undefined

\* The continuations of the interceptor queued in the microtask queue are
\* those of the requests whose waitFor(nonNullable()) has resolved; `turn`
\* orders the requests that wait, and those whose wait has ended, by the
\* moment they started waiting, or were resolved.
lastTurn(reqs, stages) ==
    LET turns == { reqs[i].turn : i \in { j \in 1..Len(reqs) : reqs[j].stage \in stages } }
    IN  IF turns = {} THEN 0 ELSE CHOOSE n \in turns : \A m \in turns : m <= n

\* evtVaultToken.post(token): the handlers attached by waitFor(nonNullable())
\* are invoked in the order they were attached; each one that matches resolves
\* its promise with the token and is detached.  The interceptor goes on after
\* its `await` later, in a continuation of its own.
postVaultToken(reqs, token) ==
    [i \in 1..Len(reqs) |->
        IF reqs[i].stage = "waiting" /\ nonNullable(token)
        THEN [reqs[i] EXCEPT
                !.stage = "resolved",
                !.vaultToken = token,
                !.turn = lastTurn(reqs, {"resolved"})
                           + Cardinality({ j \in 1..Len(reqs) :
                                 /\ reqs[j].stage = "waiting"
                                 /\ reqs[j].turn <= reqs[i].turn })]
        ELSE reqs[i]]

\* One operation of secretsManagerClient is called: axios runs the request
\* interceptor, which first awaits the renewal of the OIDC access token.
Call(op, path, secret, maxCalls) ==
    /\ nbCalls < maxCalls
    /\ nbCalls' = nbCalls + 1
    /\ requests' = requests \o
          [i \in 1..Len(axiosCalls(op, path, secret)) |->
              [call |-> [n |-> nbCalls + 1, op |-> op, path |-> path, secret |-> secret],
               config |-> axiosCalls(op, path, secret)[i],
               stage |-> "renewing",
               vaultToken |-> Undefined,
               turn |-> 0,
               headers |-> ([sent |-> FALSE, token |-> Undefined])]]
    /\ UNCHANGED << engine, evtOidcAccessToken, evtVaultToken, currentCallCount,
                    pipeCalls, pipeDropped, memo, clientTokens, loginPosts,
                    exchangeFailed >>

\* renewOidcAccessTokenIfItExpiresSoonOrRedirectToLoginIfAlreadyExpired()
\* resolves for request i and the interceptor goes on to
\* evtVaultToken.waitFor(nonNullable()): the promise it returns is resolved
\* with the state of evtVaultToken when the state matches, and is left pending
\* with a handler attached otherwise.  The interceptor awaits that promise.
RenewDone(i) ==
    /\ i \in 1..Len(requests)
    /\ requests[i].stage = "renewing"
    /\ requests' = [requests EXCEPT ![i] =
          IF nonNullable(evtVaultToken)
          THEN [@ EXCEPT !.stage = "resolved",
                         !.vaultToken = evtVaultToken,
                         !.turn = lastTurn(requests, {"waiting", "resolved"}) + 1]
          ELSE [@ EXCEPT !.stage = "waiting",
                         !.turn = lastTurn(requests, {"waiting", "resolved"}) + 1]]
    /\ UNCHANGED << engine, evtOidcAccessToken, evtVaultToken, currentCallCount,
                    pipeCalls, pipeDropped, memo, clientTokens, loginPosts,
                    exchangeFailed, nbCalls >>

\* The interceptor of request i goes on after `await evtVaultToken.waitFor(...)`
\* and returns the request configuration with the awaited value as
\* X-Vault-Token: the request goes out.  The continuations run in the order
\* in which the promises were resolved.
InterceptorReturned(i) ==
    /\ i \in 1..Len(requests)
    /\ requests[i].stage = "resolved"
    /\ \A j \in 1..Len(requests) :
          requests[j].stage = "resolved" => requests[i].turn <= requests[j].turn
    /\ requests' = [requests EXCEPT ![i] =
          [@ EXCEPT !.stage = "sent",
                    !.turn = 0,
                    !.headers = [sent |-> TRUE, token |-> requests[i].vaultToken]]]
    /\ UNCHANGED << engine, evtOidcAccessToken, evtVaultToken, currentCallCount,
                    pipeCalls, pipeDropped, memo, clientTokens, loginPosts,
                    exchangeFailed, nbCalls >>

\* memoizee(..., { promise: true }): the promise kept for an argument, pending
\* or resolved; a rejected promise is not kept.
\* Faulty variant: a promise is dropped from the cache once it has resolved.
memoizedFaulty(oidcAccessToken) ==
    IF memo[oidcAccessToken] = "resolved" THEN "none" ELSE memo[oidcAccessToken]

memoized(oidcAccessToken) == memo[oidcAccessToken]

\* The handlers of Evt.asyncPipe whose awaited promise is resolved: their
\* continuations are in the microtask queue, in the order of their calls.
resumable == { c \in pipeCalls : memo[c.jwt] = "resolved" }

\* No continuation is queued, neither of a handler of Evt.asyncPipe nor of the
\* request interceptor: the microtask queue is empty and the next task is taken.
microtasksDone ==
    /\ resumable = {}
    /\ \A i \in 1..Len(requests) : requests[i].stage # "resolved"

\* evtOidcAccessToken.evtChange posts: the handler of Evt.asyncPipe runs.  For
\* undefined the operator returns [undefined], which is posted at once; for a
\* token it returns fetchVaultToken(token).then(...), a promise even when the
\* exchange is memoized and resolved, and the handler awaits it.  `promise` is
\* what the cache of fetchVaultToken held for the token at the call.
OidcChange(token, maxCalls) ==
    /\ token # evtOidcAccessToken
    /\ currentCallCount < maxCalls
    /\ evtOidcAccessToken' = token
    /\ currentCallCount' = currentCallCount + 1
    /\ exchangeFailed' = FALSE
    /\ IF token = Undefined
       THEN /\ evtVaultToken' = asyncOpOfUndefined
            /\ requests' = postVaultToken(requests, asyncOpOfUndefined)
            /\ UNCHANGED << pipeCalls, memo, loginPosts >>
       ELSE /\ pipeCalls' = pipeCalls \cup
                    {[jwt |-> token, thisCallCount |-> currentCallCount + 1,
                      promise |-> memoized(token)]}
            /\ IF memoized(token) \in {"pending", "resolved"}
               THEN UNCHANGED << memo, loginPosts >>
               ELSE /\ memo' = [memo EXCEPT ![token] = "pending"]
                    /\ loginPosts' = [loginPosts EXCEPT ![token] = @ + 1]
            /\ UNCHANGED << evtVaultToken, requests >>
    /\ UNCHANGED << engine, clientTokens, nbCalls, pipeDropped >>

\* The handler of Evt.asyncPipe goes on after `await`, the promise of
\* fetchVaultToken(c.jwt).then(...) being resolved: it posts the vault token
\* unless a later event has been piped since its call.  The continuations of
\* the handlers run in the order of the calls; how they interleave with those
\* of the request interceptor depends on the promise jobs of the libraries and
\* is left open.
AsyncOpResolved(c) ==
    /\ c \in resumable
    /\ \A d \in resumable : c.thisCallCount <= d.thisCallCount
    /\ pipeCalls' = pipeCalls \ {c}
    /\ IF asyncPipeMayPost(c.thisCallCount)
       THEN /\ evtVaultToken' = clientTokens[c.jwt]
            /\ requests' = postVaultToken(requests, clientTokens[c.jwt])
            /\ UNCHANGED pipeDropped
       ELSE /\ pipeDropped' = pipeDropped \cup
                    {[jwt |-> c.jwt, thisCallCount |-> c.thisCallCount,
                      clientToken |-> clientTokens[c.jwt], state |-> evtVaultToken]}
            /\ UNCHANGED << evtVaultToken, requests >>
    /\ UNCHANGED << engine, evtOidcAccessToken, currentCallCount, memo, clientTokens,
                    loginPosts, exchangeFailed, nbCalls >>

\* POST /v1/auth/jwt/login {role, jwt} answers with auth.client_token: the
\* promise of fetchVaultToken(jwt) resolves.  The answer of an HTTP request is
\* a task of its own: the continuations queued before it have all run.
LoginResolve(jwt, clientToken) ==
    /\ memo[jwt] = "pending"
    /\ microtasksDone
    /\ memo' = [memo EXCEPT ![jwt] = "resolved"]
    /\ clientTokens' = [clientTokens EXCEPT ![jwt] = clientToken]
    /\ UNCHANGED << engine, evtOidcAccessToken, evtVaultToken, currentCallCount,
                    pipeCalls, pipeDropped, loginPosts, exchangeFailed, requests,
                    nbCalls >>

\* The login exchange fails: memoizee forgets the rejected promise and the
\* handlers of asyncPipe awaiting it throw.
LoginReject(jwt) ==
    /\ memo[jwt] = "pending"
    /\ microtasksDone
    /\ memo' = [memo EXCEPT ![jwt] = "none"]
    /\ pipeCalls' = { c \in pipeCalls : c.jwt # jwt }
    /\ exchangeFailed' = (exchangeFailed \/ jwt = evtOidcAccessToken)
    /\ UNCHANGED << engine, evtOidcAccessToken, evtVaultToken, currentCallCount,
                    pipeDropped, clientTokens, loginPosts, requests, nbCalls >>

-----------------------------------------------------------------------------
(* The search bar of the catalog *)

Chars == {"a", "b"}
SearchTexts == SeqsUpTo(Chars, MaxSearchLen)
Keys == {"Escape", "Enter", "a"}

SearchBarMounted ==
    /\ isActive = FALSE
    /\ search = << >>
    /\ lastSearchChange = << >>
    /\ sbEvent = "mount"

\* Faulty variant: Enter and Escape collapse the bar whatever the text.
keyDownCollapsesFaulty(text) == TRUE
\* `if (search !== "") return;` of onInputKeyDown: the bar collapses only
\* when the text of the last render is empty.
keyDownCollapses(text) == text = << >>

\* Faulty variant: a click away collapses the bar whatever the text.
clickAwayCollapsesFaulty(text) == TRUE
\* `if (search !== "") return;` of the useClickAway callback.
clickAwayCollapses(text) == text = << >>

\* The key onInputKeyDown retains from event.key.
keyOf(eventKey) ==
    IF eventKey = "Escape" \/ eventKey = "Enter" THEN eventKey ELSE "irrelevant"

\* A click on the root <div> that is not on the icon nor on the clear button.
onRootClick ==
    /\ isActive' = TRUE
    /\ sbEvent' = "rootClick"
    /\ UNCHANGED << search, lastSearchChange >>

\* A click on the search icon: the input, if any, is focused and its text
\* selected; the click then bubbles to the root <div>.
onIconClick ==
    /\ isActive' = TRUE
    /\ sbEvent' = "iconClick"
    /\ UNCHANGED << search, lastSearchChange >>

\* A click on the clear button, rendered while the bar is active and enabled
\* while the text is not empty; the click then bubbles to the root <div>.
onClearButtonClick ==
    /\ isActive
    /\ search # << >>
    /\ search' = << >>
    /\ isActive' = TRUE
    /\ sbEvent' = "clearButtonClick"
    /\ UNCHANGED lastSearchChange

\* The user edits the text of the <input>, rendered while the bar is active.
onInputChange(value) ==
    /\ isActive
    /\ value # search
    /\ search' = value
    /\ lastSearchChange' = value
    /\ sbEvent' = "inputChange"
    /\ UNCHANGED isActive

\* A key is pressed in the <input>.
onInputKeyDown(eventKey) ==
    /\ isActive
    /\ sbEvent' = "keyDown:" \o keyOf(eventKey)
    /\ IF keyOf(eventKey) = "irrelevant"
       THEN UNCHANGED << search, isActive >>
       ELSE /\ search' = (IF keyOf(eventKey) = "Escape" THEN << >> ELSE search)
            /\ isActive' = (IF keyDownCollapses(search) THEN FALSE ELSE isActive)
    /\ UNCHANGED lastSearchChange

\* A click outside of the root <div>.
onClickAway ==
    /\ isActive' = (IF clickAwayCollapses(search) THEN FALSE ELSE isActive)
    /\ sbEvent' = "clickAway"
    /\ UNCHANGED << search, lastSearchChange >>

-----------------------------------------------------------------------------
(* privateThunks.getInitialFormFields: the form fields of a values schema.  *)
(* A node of the schema is a record: `hasProperties` says that it holds a   *)
(* `properties` object, given as the sequence of its entries in declaration *)
(* order, which Object.entries reorders; "absent" stands for a key the node *)
(* does not declare.  The title, description, default and slider bounds     *)
(* that a form field copies from its node play no part in the choices made  *)
(* here and are left out.                                                   *)

Absent == "absent"

NoHidden == [kind |-> Absent, bool |-> FALSE, path |-> << >>, value |-> ""]
HiddenBoolean(b) == [kind |-> "boolean", bool |-> b, path |-> << >>, value |-> ""]
HiddenRef(path, value) == [kind |-> "object", bool |-> FALSE, path |-> path, value |-> value]

Description(type, render, sliderExtremity, hasEnum, hidden, xOnyxiaHidden, pattern) ==
    [type |-> type, hasProperties |-> FALSE, properties |-> << >>,
     render |-> render, sliderExtremity |-> sliderExtremity,
     enum |-> IF hasEnum THEN <<"e1">> ELSE << >>, hasEnum |-> hasEnum,
     listEnum |-> IF render = "list" THEN <<"l1", "l2">> ELSE << >>,
     hidden |-> hidden, xOnyxiaHidden |-> xOnyxiaHidden,
     xSecurityPattern |-> pattern]

SchemaObject(properties) ==
    [type |-> "object", hasProperties |-> TRUE, properties |-> properties,
     render |-> Absent, sliderExtremity |-> Absent,
     enum |-> << >>, hasEnum |-> FALSE, listEnum |-> << >>,
     hidden |-> NoHidden, xOnyxiaHidden |-> Absent,
     xSecurityPattern |-> Absent]

\* String.prototype.split("/") on a string given as its characters.
RECURSIVE splitOnSlash(_, _)
splitOnSlash(chars, current) ==
    IF chars = << >> THEN << current >>
    ELSE IF Head(chars) = "/"
         THEN << current >> \o splitOnSlash(Tail(chars), "")
         ELSE splitOnSlash(Tail(chars), current \o Head(chars))

\* new RegExp(pattern).test(str), for the patterns "^a*$" and "b".
RegExpTest(pattern, str) ==
    CASE pattern = "^a*$" -> \A i \in 1..Len(str) : str[i] = "a"
      [] pattern = "b" -> \E i \in 1..Len(str) : str[i] = "b"

\* formFieldsValueDifferentFromDefault.find(({ path }) => same(path, p))
RECURSIVE findValue(_, _)
findValue(formFieldsValue, path) ==
    IF formFieldsValue = << >> THEN [found |-> FALSE, value |-> << >>]
    ELSE IF Head(formFieldsValue).path = path
         THEN [found |-> TRUE, value |-> Head(formFieldsValue).value]
         ELSE findValue(Tail(formFieldsValue), path)

\* The test `render === "slider"` that opens the choice of the field kind.
\* Faulty variant: only a numeric property is rendered as a slider.
isSliderFaulty(description) ==
    description.render = "slider" /\ description.type \in {"integer", "number"}
isSlider(description) == description.render = "slider"

FormField(path, type) ==
    [path |-> path, type |-> type, sliderVariation |-> Absent,
     sliderExtremity |-> Absent, enum |-> << >>, doRenderAsTextArea |-> FALSE,
     valueType |-> IF type = "object" \/ type = "array" THEN "yaml" ELSE "plain"]

\* The `security_warning` block: what it pushes to sensitiveConfigurations.
\* Faulty variant: the values that match the pattern are reported.
securityWarningFaulty(isDetecting, description, path, formFieldsValue) ==
    LET found == findValue(formFieldsValue, path)
    IN  IF isDetecting /\ description.xSecurityPattern # Absent /\ found.found
           /\ RegExpTest(description.xSecurityPattern, found.value)
        THEN << [path |-> path, value |-> found.value] >>
        ELSE << >>
securityWarning(isDetecting, description, path, formFieldsValue) ==
    LET found == findValue(formFieldsValue, path)
    IN  IF ~isDetecting THEN << >>
        ELSE IF description.xSecurityPattern = Absent THEN << >>
        ELSE IF ~found.found THEN << >>
        ELSE IF RegExpTest(description.xSecurityPattern, found.value) THEN << >>
        ELSE << [path |-> path, value |-> found.value] >>

\* The function whose result is pushed to formFields, with what it pushes to
\* sensitiveConfigurations on its way.
formFieldPushed(isDetecting, description, path, formFieldsValue) ==
    LET none == << >>
    IN
    IF isSlider(description)
    THEN IF description.sliderExtremity = "down"
         THEN [formField |-> [FormField(path, "slider") EXCEPT
                                 !.sliderVariation = "range", !.sliderExtremity = "down"],
               sensitive |-> none]
         ELSE IF description.sliderExtremity = "up"
         THEN [formField |-> [FormField(path, "slider") EXCEPT
                                 !.sliderVariation = "range", !.sliderExtremity = "up"],
               sensitive |-> none]
         ELSE [formField |-> [FormField(path, "slider") EXCEPT !.sliderVariation = "simple"],
               sensitive |-> none]
    ELSE IF description.type = "boolean"
    THEN [formField |-> FormField(path, "boolean"), sensitive |-> none]
    ELSE IF description.type = "object" \/ description.type = "array"
    THEN [formField |-> FormField(path, description.type), sensitive |-> none]
    ELSE IF description.type = "integer" \/ description.type = "number"
    THEN [formField |-> FormField(path, "integer"), sensitive |-> none]
    ELSE IF description.render = "list"
    THEN [formField |-> [FormField(path, "enum") EXCEPT !.enum = description.listEnum],
          sensitive |-> none]
    ELSE IF description.hasEnum
    THEN [formField |-> [FormField(path, "enum") EXCEPT !.enum = description.enum],
          sensitive |-> none]
    ELSE [formField |-> [FormField(path, IF description.render = "password"
                                         THEN "password" ELSE "text")
                            EXCEPT !.doRenderAsTextArea = (description.render = "textArea")],
          sensitive |-> securityWarning(isDetecting, description, path, formFieldsValue)]

\* The function whose result is pushed to infosAboutWhenFieldsShouldBeHidden.
\* Faulty variant: x-onyxia.hidden is looked at first.
isHiddenFaulty(description) ==
    IF description.xOnyxiaHidden # Absent
    THEN HiddenBoolean(description.xOnyxiaHidden = "true")
    ELSE IF description.hidden.kind = Absent THEN HiddenBoolean(FALSE)
    ELSE IF description.hidden.kind = "boolean" THEN description.hidden
    ELSE HiddenRef(splitOnSlash(description.hidden.path, ""), description.hidden.value)
isHidden(description) ==
    IF description.hidden.kind = Absent
    THEN IF description.xOnyxiaHidden # Absent
         THEN HiddenBoolean(description.xOnyxiaHidden = "true")
         ELSE HiddenBoolean(FALSE)
    ELSE IF description.hidden.kind = "boolean"
    THEN HiddenBoolean(description.hidden.bool)
    ELSE HiddenRef(splitOnSlash(description.hidden.path, ""), description.hidden.value)

\* Faulty variant: the path of a field is its own key.
newCurrentPathFaulty(currentPath, key) == << key >>
newCurrentPath(currentPath, key) == Append(currentPath, key)

\* Object.entries(properties): the entries whose key is an array index
\* ("2", "10") first, in ascending numeric order, then the other entries in
\* declaration order.
ObjectEntries(properties) ==
    LET arrayIndex(key) == CASE key = "2" -> 2 [] key = "10" -> 10 [] OTHER -> -1
        indexed == { i \in 1..Len(properties) : arrayIndex(properties[i].key) >= 0 }
        RECURSIVE ascending(_)
        ascending(positions) ==
            IF positions = {} THEN << >>
            ELSE LET least == CHOOSE i \in positions : \A j \in positions :
                                  arrayIndex(properties[i].key)
                                      <= arrayIndex(properties[j].key)
                 IN  << properties[least] >> \o ascending(positions \ {least})
    IN  ascending(indexed)
            \o SelectSeq(properties, LAMBDA entry : arrayIndex(entry.key) < 0)

\* The recursive function `callee`: what one walk of `properties` pushes, in
\* order, to the three lists.  `entries` is what is left of
\* Object.entries(properties) to go through.
RECURSIVE forEachEntry(_, _, _, _)
RECURSIVE callee(_, _, _, _)
callee(properties, currentPath, isDetecting, formFieldsValue) ==
    forEachEntry(ObjectEntries(properties), currentPath, isDetecting, formFieldsValue)

forEachEntry(entries, currentPath, isDetecting, formFieldsValue) ==
    IF entries = << >>
    THEN [formFields |-> << >>, infos |-> << >>, sensitive |-> << >>]
    ELSE LET key == Head(entries).key
             node == Head(entries).node
             path == newCurrentPath(currentPath, key)
             first ==
                IF node.type = "object" /\ node.hasProperties
                THEN callee(node.properties, path, isDetecting, formFieldsValue)
                ELSE LET pushed == formFieldPushed(isDetecting, node, path, formFieldsValue)
                     IN  [formFields |-> << pushed.formField >>,
                          infos |-> << [path |-> path, isHidden |-> isHidden(node)] >>,
                          sensitive |-> pushed.sensitive]
             others == forEachEntry(Tail(entries), currentPath, isDetecting,
                                    formFieldsValue)
         IN  [formFields |-> first.formFields \o others.formFields,
              infos |-> first.infos \o others.infos,
              sensitive |-> first.sensitive \o others.sensitive]

\* Whether sensitiveConfigurations starts as [] rather than undefined: what
\* getIsRestorableConfigSaved answers for the restorable configuration.
\* Faulty variant: the list is always started.
isDetectingSensitiveValuesFaulty(params) == TRUE

isDetectingSensitiveValues(params) == params.isRestorableConfigSaved

\* `sensitiveConfigurations ?? []`, as handed to actions.initialized.
sensitiveConfigurationsOrEmpty(sensitiveConfigurations) ==
    IF sensitiveConfigurations.isDefined THEN sensitiveConfigurations.list ELSE << >>

getInitialFormFields(params) ==
    LET isDetecting == isDetectingSensitiveValues(params)
        walk == callee(params.valuesSchema.properties, << >>, isDetecting,
                       params.formFieldsValueDifferentFromDefault)
    IN  [formFields |-> walk.formFields,
         infosAboutWhenFieldsShouldBeHidden |-> walk.infos,
         sensitiveConfigurations |->
            [isDefined |-> isDetecting, list |-> walk.sensitive]]

NotCalled ==
    [isCalled |-> FALSE,
     result |-> [formFields |-> << >>, infosAboutWhenFieldsShouldBeHidden |-> << >>,
                 sensitiveConfigurations |-> [isDefined |-> FALSE, list |-> << >>]]]

\* dispatch(privateThunks.getInitialFormFields(params))
GetInitialFormFields ==
    /\ ~ffResult.isCalled
    /\ ffResult' = [isCalled |-> TRUE, result |-> getInitialFormFields(ffParams)]
    /\ UNCHANGED ffParams

(* The values schemas and the values the fields are computed for. *)

\* The keys of the `properties` objects that hold two entries, in declaration
\* order: "2" and "10" are array indexes, which Object.entries moves.
PropertyKeys == { <<"k1", "k2">>, <<"k2", "k1">>, <<"k2", "2">>, <<"10", "2">> }

\* Every description of a leaf, one choice per key it may declare.
Descriptions ==
    { Description(type, render, sliderExtremity, hasEnum, NoHidden, Absent, pattern) :
        type \in ({"boolean", "object", "array", "integer", "number", "string"}),
                render \in ({Absent, "slider", "textArea", "password", "list",
                "unsupported"}), sliderExtremity \in ({Absent, "down", "up"}),
        hasEnum \in BOOLEAN, pattern \in {"^a*$", "b", Absent} }
    \cup
    { Description(type, Absent, Absent, FALSE, hidden, xOnyxiaHidden, Absent) :
        type \in {"string", "boolean"}, hidden \in ({ NoHidden, HiddenBoolean(TRUE),
                HiddenBoolean(FALSE), HiddenRef(<<"a">>, "v"), HiddenRef(<<"a", "/",
                "b">>, "v"), HiddenRef(<<"/", "a">>, "w") }),
        xOnyxiaHidden \in ({Absent, "true", "false"}) }

\* The leaves the nested schemas are made of: a text field under a security
\* pattern and an object without `properties`.
NestedDescriptions ==
    { Description("string", Absent, Absent, FALSE, NoHidden, Absent, "^a*$"),
      Description("object", Absent, Absent, FALSE, HiddenBoolean(TRUE), Absent, Absent) }

\* The second entry of the `properties` objects that hold two.
SiblingNodes ==
    NestedDescriptions
    \cup { SchemaObject(<< >>) }
    \cup { SchemaObject(<< [key |-> "k1", node |-> d] >>) : d \in NestedDescriptions }

\* The `properties` objects of at most two entries, the first one over a set
\* of nodes.
PropertiesOver(nodes) ==
    { << >> }
    \cup { << [key |-> k, node |-> n] >> : k \in {"k1", "k2"}, n \in nodes }
    \cup { << [key |-> keys[1], node |-> n1], [key |-> keys[2], node |-> n2] >> :
               keys \in PropertyKeys, n1 \in nodes, n2 \in SiblingNodes }

RECURSIVE NestedNodes(_)
NestedNodes(depth) ==
    IF depth = 0 THEN NestedDescriptions
    ELSE NestedDescriptions
         \cup { SchemaObject(p) : p \in PropertiesOver(NestedNodes(depth - 1)) }

ValuesSchemas ==
    { SchemaObject(<< [key |-> "k1", node |-> d] >>) : d \in Descriptions }
    \cup { SchemaObject(p) : p \in PropertiesOver(NestedNodes(MaxDepth - 1)) }

FormFieldsValues ==
    { << >>,
      << [path |-> <<"k1">>, value |-> <<"a">>] >>,
      << [path |-> <<"k1">>, value |-> <<"b">>] >>,
      << [path |-> <<"k2">>, value |-> <<"a">>],
         [path |-> <<"k1">>, value |-> <<"a", "b">>],
         [path |-> <<"k2", "k1">>, value |-> <<"b">>] >> }

FormFieldsNotAsked ==
    /\ ffParams = [valuesSchema |-> SchemaObject(<< >>),
                   formFieldsValueDifferentFromDefault |-> << >>,
                   isRestorableConfigSaved |-> FALSE]
    /\ ffResult = NotCalled

-----------------------------------------------------------------------------
(* Launcher: privateThunks.getXOnyxiaContext                                *)
(* The context is the record the thunk returns, without the parts that are  *)
(* random (service.oneTimePassword, k8s.randomSubdomain) or copied as they  *)
(* are from the region (region, k8s, the three injections).  A URL is the   *)
(* record of its host and, when it has one, its port; an S3 path is the     *)
(* sequence of its segments.  An optional property that holds an object or  *)
(* a number is undefined when the record has no such field; an optional     *)
(* string is undefined when it is Undefined.                                *)

Null == "null"

\* a ?? undefined
nullishToUndefined(a) == IF a \in {Null, Undefined} THEN Undefined ELSE a

has(object, property) == property \in DOMAIN object

\* parseUrl(url), of core/tools/parseUrl, which is not among the sources: the
\* host, and the port when the URL has one.
parseUrl(url) == [part \in DOMAIN url \ {"protocol"} |-> url[part]]

\* const { host, port = 443 } = parseUrl(url)
hostAndPort(url) ==
    LET parsed == parseUrl(url)
    IN  [host |-> parsed.host,
         port |-> IF has(parsed, "port") THEN parsed.port ELSE 443]

\* bucketNameAndObjectNameFromS3Path(path), of core/adapters/s3Client/utils,
\* which is not among the sources: the bucket is the first segment.
bucketNameAndObjectNameFromS3Path(path) ==
    [bucketName |-> Head(path), objectName |-> Tail(path)]

doInjectPersonalInfosFaulty(project, paramsOfBootstrapCore) ==
    project.group = Undefined

doInjectPersonalInfos(project, paramsOfBootstrapCore) ==
    \/ project.group = Undefined
    \/ ~paramsOfBootstrapCore.disablePersonalInfosInjectionInGroup

NoCalls == [secretsManagerGetToken |-> 0, s3ClientGetToken |-> 0]

xOnyxiaContextUser(p, doInject) ==
    [idep |-> p.user.username,
     name |-> p.user.familyName \o " " \o p.user.firstName,
     email |-> p.user.email,
     password |-> p.servicePassword,
     ip |-> IF ~doInject THEN "0.0.0.0" ELSE p.publicIp,
     darkMode |-> p.userConfigs.isDarkModeEnabled,
     lang |-> p.paramsOfBootstrapCore.currentLang]

xOnyxiaContextProject(p) ==
    [id |-> p.project.id,
     password |-> p.servicePassword,
     basic |-> [btoa |-> p.project.id \o ":" \o p.servicePassword]]

xOnyxiaContextGit(p, doInject) ==
    IF ~doInject
    THEN [name |-> "", email |-> "", credentials_cache_duration |-> 0,
          token |-> Undefined]
    ELSE [name |-> p.userConfigs.gitName,
          email |-> p.userConfigs.gitEmail,
          credentials_cache_duration |-> p.userConfigs.gitCredentialCacheDuration,
          token |-> nullishToUndefined(p.userConfigs.githubPersonalAccessToken)]

\* The vault block, and the number of calls of secretsManager.getToken made.
xOnyxiaContextVault(p, doInject) ==
    IF ~has(p.region, "vault")
    THEN [value |-> [VAULT_ADDR |-> "", VAULT_TOKEN |-> "", VAULT_MOUNT |-> "",
                     VAULT_TOP_DIR |-> ""],
          getTokenCalls |-> 0]
    ELSE [value |-> [VAULT_ADDR |-> p.region.vault.url,
                     VAULT_TOKEN |-> IF ~doInject THEN ""
                                     ELSE p.secretsManagerToken.token,
                     VAULT_MOUNT |-> p.region.vault.kvEngine,
                     VAULT_TOP_DIR |-> p.homeDirectoryPath],
          getTokenCalls |-> IF ~doInject THEN 0 ELSE 1]

s3FromProjectConfig(dataSource) ==
    LET url == hostAndPort(dataSource.url)
    IN  [AWS_ACCESS_KEY_ID |-> dataSource.accessKeyId,
         AWS_BUCKET_NAME |->
             bucketNameAndObjectNameFromS3Path(dataSource.workingDirectoryPath).bucketName,
         AWS_SECRET_ACCESS_KEY |-> dataSource.secretAccessKey,
         AWS_SESSION_TOKEN |-> IF nullishToUndefined(dataSource.sessionToken) = Undefined
                               THEN "" ELSE dataSource.sessionToken,
         AWS_DEFAULT_REGION |-> dataSource.region,
         AWS_S3_ENDPOINT |-> url.host,
         port |-> url.port,
         pathStyleAccess |-> dataSource.pathStyleAccess]

s3Empty ==
    [AWS_ACCESS_KEY_ID |-> "", AWS_SECRET_ACCESS_KEY |-> "", AWS_SESSION_TOKEN |-> "",
     AWS_BUCKET_NAME |-> "", AWS_DEFAULT_REGION |-> "", AWS_S3_ENDPOINT |-> "",
     port |-> 0, pathStyleAccess |-> TRUE]

awsBucketName(project, user, workingDirectory) ==
    IF workingDirectory.bucketMode = "multi"
    THEN IF project.group = Undefined
         THEN workingDirectory.bucketNamePrefixGroup \o project.group
         ELSE workingDirectory.bucketNamePrefix \o user.username
    ELSE workingDirectory.bucketName

s3FromRegion(p, doInject) ==
    LET url == hostAndPort(p.region.s3Params.url)
        token == p.s3ClientToken
    IN  [AWS_ACCESS_KEY_ID |-> IF ~doInject THEN "" ELSE token.accessKeyId,
         AWS_SECRET_ACCESS_KEY |-> IF ~doInject THEN "" ELSE token.secretAccessKey,
         AWS_SESSION_TOKEN |-> IF ~doInject THEN "" ELSE token.sessionToken,
         AWS_BUCKET_NAME |->
             awsBucketName(p.projectAtS3, p.user, p.region.s3Params.workingDirectory),
         AWS_DEFAULT_REGION |-> IF nullishToUndefined(p.region.s3Params.region) = Undefined
                                THEN "" ELSE p.region.s3Params.region,
         AWS_S3_ENDPOINT |-> url.host,
         port |-> url.port,
         pathStyleAccess |-> p.region.s3Params.pathStyleAccess]

\* Faulty variant: s3Params alone is taken for STS.
regionHasStsFaulty(region) == has(region, "s3Params")

\* region.s3Params?.sts !== undefined
regionHasSts(region) ==
    /\ has(region, "s3Params")
    /\ has(region.s3Params, "sts")

\* The s3 block, the number of calls of s3Client.getToken made, and whether
\* assert(sessionToken !== undefined) failed.
xOnyxiaContextS3(p, doInject) ==
    IF has(p.customS3Configs, "indexForXOnyxia")
    THEN [value |-> s3FromProjectConfig(
                        p.customS3Configs.availableConfigs[
                            p.customS3Configs.indexForXOnyxia]),
          getTokenCalls |-> 0, threw |-> FALSE]
    ELSE IF ~regionHasSts(p.region)
    THEN [value |-> s3Empty, getTokenCalls |-> 0, threw |-> FALSE]
    ELSE IF ~doInject
    THEN [value |-> s3FromRegion(p, doInject), getTokenCalls |-> 0, threw |-> FALSE]
    ELSE IF p.s3ClientToken.sessionToken = Undefined
    THEN [getTokenCalls |-> 1, threw |-> TRUE]
    ELSE [value |-> s3FromRegion(p, doInject), getTokenCalls |-> 1, threw |-> FALSE]

getXOnyxiaContext(p) ==
    LET doInject == doInjectPersonalInfos(p.project, p.paramsOfBootstrapCore)
        vault == xOnyxiaContextVault(p, doInject)
        s3 == xOnyxiaContextS3(p, doInject)
        calls == [secretsManagerGetToken |-> vault.getTokenCalls,
                  s3ClientGetToken |-> s3.getTokenCalls]
    IN  IF s3.threw
        THEN [status |-> "rejected", calls |-> calls]
        ELSE [status |-> "resolved", calls |-> calls,
              xOnyxiaContext |->
                  [user |-> xOnyxiaContextUser(p, doInject),
                   project |-> xOnyxiaContextProject(p),
                   git |-> xOnyxiaContextGit(p, doInject),
                   vault |-> vault.value,
                   kaggleApiToken |->
                       IF ~doInject THEN Undefined
                       ELSE nullishToUndefined(p.userConfigs.kaggleApiToken),
                   s3 |-> s3.value]]

ContextNotCalled == [status |-> "not called", calls |-> NoCalls]

\* The thunk goes on from the await it was at, with the store as it is then,
\* to its next await or to its end.  `read` is what it has read so far, each
\* value as it was in the store when the thunk read it.  The awaits are those
\* of the public IP (l.450), of secretsManager.getToken() (l.520), of the
\* vault block (l.504), of s3Client.getToken() (l.592), of the credentials of
\* the s3 block (l.582) and of the s3 block (l.530).
resumed(result, store) ==
    LET \* l.452-464: the user, the user's configs, the region, the service
        \* password and the project.
        readAfterPublicIp ==
            [publicIp |-> store.publicIp,
             user |-> store.user,
             userConfigs |-> store.userConfigs,
             region |-> store.region,
             servicePassword |-> store.servicePassword,
             project |-> store.project,
             paramsOfBootstrapCore |-> store.paramsOfBootstrapCore]
        doInject(read) ==
            doInjectPersonalInfos(read.project, read.paramsOfBootstrapCore)
        pending(awaiting, calls, read) ==
            [status |-> "pending", awaiting |-> awaiting, calls |-> calls, read |-> read]
        \* l.532-533: the custom S3 configs of the project
        readAfterVault == result.read @@ [customS3Configs |-> store.customS3Configs]
    IN  CASE result.awaiting = "publicIp" ->
                 \* l.452-526: the vault block runs to secretsManager.getToken(),
                 \* or to its end, the home directory being read when the
                 \* region has a vault
                 IF ~has(readAfterPublicIp.region, "vault")
                 THEN pending("vault", NoCalls, readAfterPublicIp)
                 ELSE IF doInject(readAfterPublicIp)
                 THEN pending("secretsManager.getToken",
                              [NoCalls EXCEPT !.secretsManagerGetToken = 1],
                              readAfterPublicIp)
                 ELSE pending("vault", NoCalls,
                              readAfterPublicIp
                                  @@ [homeDirectoryPath |-> store.homeDirectoryPath])
          [] result.awaiting = "secretsManager.getToken" ->
                 \* l.520-526: the token, then the home directory
                 pending("vault", result.calls,
                         result.read
                             @@ [secretsManagerToken |-> store.secretsManagerToken,
                                 homeDirectoryPath |-> store.homeDirectoryPath])
          [] result.awaiting = "vault" ->
                 \* l.527-603: the s3 block runs to s3Client.getToken(), or to
                 \* its end, the project being read once more when the block
                 \* comes from the region
                 IF \/ has(readAfterVault.customS3Configs, "indexForXOnyxia")
                    \/ ~regionHasSts(readAfterVault.region)
                 THEN pending("s3", result.calls, readAfterVault)
                 ELSE IF doInject(readAfterVault)
                 THEN pending("s3Client.getToken",
                              [result.calls EXCEPT !.s3ClientGetToken = 1],
                              readAfterVault @@ [projectAtS3 |-> store.project])
                 ELSE pending("s3 credentials", result.calls,
                              readAfterVault @@ [projectAtS3 |-> store.project])
          [] result.awaiting = "s3Client.getToken" ->
                 \* l.591-602
                 pending("s3 credentials", result.calls,
                         result.read @@ [s3ClientToken |-> store.s3ClientToken])
          [] result.awaiting = "s3 credentials" ->
                 \* l.581-621
                 pending("s3", result.calls, result.read)
          [] result.awaiting = "s3" ->
                 \* l.623-650: the promise is settled on what was read
                 getXOnyxiaContext(result.read) @@ [read |-> result.read]

\* getXOnyxiaContext() is called: it awaits the public IP.
GetXOnyxiaContext ==
    /\ ctxResult.status = "not called"
    /\ ctxResult' = [status |-> "pending", awaiting |-> "publicIp", calls |-> NoCalls]
    /\ UNCHANGED ctxParams

\* The promise the thunk awaits is settled and the thunk goes on.
AwaitDone(awaiting) ==
    /\ ctxResult.status = "pending"
    /\ ctxResult.awaiting = awaiting
    /\ ctxResult' = resumed(ctxResult, ctxParams)
    /\ UNCHANGED ctxParams

\* await dispatch(publicIpUsecase.thunks.fetch()) resolves.
PublicIpFetched == AwaitDone("publicIp")

\* await secretsManager.getToken() resolves.
SecretsManagerTokenGot == AwaitDone("secretsManager.getToken")

\* `"vault": await (async () => {...})()` goes on, the vault block being done.
VaultBlockDone == AwaitDone("vault")

\* await s3Client.getToken({ doForceRenew: false }) resolves.
S3ClientTokenGot == AwaitDone("s3Client.getToken")

\* `...(await (async () => {...})())` goes on, the credentials being known or
\* assert(sessionToken !== undefined) having failed.
S3CredentialsDone == AwaitDone("s3 credentials")

\* `"s3": await (async () => {...})()` goes on, the s3 block being done or
\* having thrown: the thunk returns the context, or rejects.
S3BlockDone == AwaitDone("s3")

\* While the thunk awaits, the store changes: another project is selected, or
\* the custom S3 configs of the project are edited.
StoreChanged(project, customS3Configs, homeDirectoryPath) ==
    /\ ctxResult.status = "pending"
    /\ ctxParams' = [ctxParams EXCEPT !.project = project,
                                      !.customS3Configs = customS3Configs,
                                      !.homeDirectoryPath = homeDirectoryPath]
    /\ ctxParams' # ctxParams
    /\ UNCHANGED ctxResult

\* ---- the inputs
CtxDataSources ==
    { [url |-> [protocol |-> "https", host |-> "s3.example.org"],
       accessKeyId |-> "ds-key", secretAccessKey |-> "ds-secret",
       sessionToken |-> Undefined, region |-> "eu", pathStyleAccess |-> FALSE,
       workingDirectoryPath |-> <<"ds-bucket", "dir">>],
      [url |-> [protocol |-> "https", host |-> "s3.example.org", port |-> 8443],
       accessKeyId |-> "ds-key", secretAccessKey |-> "ds-secret",
       sessionToken |-> "ds-session", region |-> "eu", pathStyleAccess |-> FALSE,
       workingDirectoryPath |-> <<"ds-bucket", "dir">>] }

CtxS3ParamsWithoutSts ==
    { [url |-> url, region |-> region, pathStyleAccess |-> TRUE,
       workingDirectory |-> workingDirectory] :
      url \in ({ [protocol |-> "https", host |-> "minio.lab"], [protocol |-> "https",
              host |-> "minio.lab", port |-> 9000] }), region \in {Undefined,
              "us-east-1"},
      workingDirectory \in ({ [bucketMode |-> "multi", bucketNamePrefix |-> "user-",
              bucketNamePrefixGroup |-> "projet-"], [bucketMode |-> "shared",
              bucketName |-> "shared-bucket"] }) }

CtxRegions ==
    LET optional(property, values) ==
            {<< >>} \cup { [p \in {property} |-> value] : value \in values }
    IN  { vault @@ s3Params :
          vault \in optional("vault", ({ [url |-> "https://vault.lab", kvEngine |-> "onyxia-kv"] })),
          s3Params \in optional("s3Params", (CtxS3ParamsWithoutSts
                  \cup { s3Params @@ [sts |-> [durationSeconds |-> 3600]] : s3Params \in CtxS3ParamsWithoutSts })) }

CtxProjects ==
    { [id |-> "user-alice", group |-> Undefined], [id |-> "project-g1", group |-> "g1"] }

CtxCustomS3Configs ==
    { [availableConfigs |-> <<dataSource>>] : dataSource \in CtxDataSources }
    \cup { [availableConfigs |-> <<dataSource>>, indexForXOnyxia |-> 1] :
           dataSource \in CtxDataSources }

CtxParams ==
    [user : {([username |-> "alice", familyName |-> "Liddell", firstName |-> "Alice", email |-> "alice@example.org"])},
     project : CtxProjects,
     servicePassword : {"pw"},
     publicIp : {"1.2.3.4"},
     userConfigs : ({ [gitName |-> "alice", gitEmail |-> "alice@example.org",
             gitCredentialCacheDuration |-> 0,
             githubPersonalAccessToken |-> Null, kaggleApiToken |-> Null,
             isDarkModeEnabled |-> TRUE],
            [gitName |-> "alice", gitEmail |-> "alice@example.org",
             gitCredentialCacheDuration |-> 3600,
             githubPersonalAccessToken |-> "ghp", kaggleApiToken |-> "kgl",
             isDarkModeEnabled |-> TRUE] }),
     paramsOfBootstrapCore :
         [disablePersonalInfosInjectionInGroup : BOOLEAN, currentLang : {"en"}],
     region : CtxRegions,
     customS3Configs : CtxCustomS3Configs,
     homeDirectoryPath : {"/user-alice"},
     secretsManagerToken : {[token |-> "vault-token"]},
     s3ClientToken : ({ [accessKeyId |-> "sts-key", secretAccessKey |-> "sts-secret",
             sessionToken |-> sessionToken] : sessionToken \in {"sts-session",
             Undefined} })]

ContextNotAsked ==
    /\ ctxParams = CHOOSE p \in CtxParams : TRUE
    /\ ctxResult = ContextNotCalled

-----------------------------------------------------------------------------
(* Launcher: thunks.launch and the reducer of formFieldValueChanged        *)
(* An object is the function from its keys to their values, the empty       *)
(* object being << >>.  Each call of launch keeps the trace of what it      *)
(* dispatched and of the calls it made to onyxiaApi.                        *)

EmptyObject == << >>

RECURSIVE assignAtPath(_, _, _)
assignAtPath(object, path, value) ==
    LET key == Head(path)
        rest == Tail(path)
    IN  IF rest = << >>
        THEN (key :> value) @@ object
        ELSE (key :> assignAtPath(IF key \in DOMAIN object THEN object[key]
                                  ELSE EmptyObject,
                                  rest, value)) @@ object

\* formFieldsValueToObject(formFieldsValue), of ./FormField, which is not among
\* the sources: the object that has each value at its path.
RECURSIVE formFieldsValueToObject(_)
formFieldsValueToObject(formFieldsValue) ==
    IF formFieldsValue = << >>
    THEN EmptyObject
    ELSE LET last == formFieldsValue[Len(formFieldsValue)]
         IN  assignAtPath(
                 formFieldsValueToObject(SubSeq(formFieldsValue, 1,
                                                Len(formFieldsValue) - 1)),
                 last.path, last.value)

\* privateSelectors.helmReleaseName(rootState), of ./selectors, which is not
\* among the sources: a name made of the chart's, undefined unless ready.
helmReleaseName(state) ==
    IF state.stateDescription # "ready"
    THEN Undefined
    ELSE state.chartName \o "-" \o state.k8sRandomSubdomain

\* The reducer of actions.formFieldValueChanged, of ./state, which is not
\* among the sources: in a ready state the field at the path takes the value,
\* and a state that is not ready stays as it is.  The reducers of
\* launchStarted and launchCompleted leave the state as it is.
formFieldValueChanged(state, formFieldValue) ==
    IF state.stateDescription # "ready" THEN state
    ELSE [state EXCEPT !.formFields =
             [i \in DOMAIN @ |->
                 IF @[i].path = formFieldValue.path
                 THEN [@[i] EXCEPT !.value = formFieldValue.value]
                 ELSE @[i]]]

dispatched(actionName) == [kind |-> "dispatch", action |-> actionName]

helmInstallParams(state) ==
    [helmReleaseName |-> helmReleaseName(state),
     catalogId |-> state.catalogId,
     chartName |-> state.chartName,
     chartVersion |-> state.chartVersion,
     values |-> formFieldsValueToObject(state.formFields)]

\* What launch does once the promise of helmInstall is settled.
afterHelmInstallFaulty(outcome) == << dispatched("launchCompleted") >>

afterHelmInstall(outcome) ==
    IF outcome = "resolved" THEN << dispatched("launchCompleted") >> ELSE << >>

\* launch(), up to its await.  The assertions fail when the launcher is not
\* ready, launchStarted having been dispatched.
Launch ==
    /\ Len(launches) < MaxLaunches
    /\ launches' = Append(launches,
          IF helmReleaseName(launcherState) = Undefined
             \/ launcherState.stateDescription # "ready"
          THEN [pc |-> "assertion failed",
                trace |-> << dispatched("launchStarted") >>]
          ELSE [pc |-> "awaiting helmInstall",
                trace |-> << dispatched("launchStarted"),
                             [kind |-> "onyxiaApi", method |-> "helmInstall",
                              params |-> helmInstallParams(launcherState)] >>])
    /\ UNCHANGED launcherState

helmInstallSettled(n, outcome) ==
    /\ launches[n].pc = "awaiting helmInstall"
    /\ launches' = [launches EXCEPT ![n] =
          [pc |-> outcome, trace |-> @.trace \o afterHelmInstall(outcome)]]
    /\ UNCHANGED launcherState

\* ---- the inputs
LauncherNotInitialized == [stateDescription |-> "not initialized"]

\* onyxiaFriendlyNameFormFieldPath.split(".") and
\* onyxiaIsSharedFormFieldPath.split("."), of core/ports/OnyxiaApi, which is
\* not among the sources.
onyxiaFriendlyNameFormFieldPath == <<"onyxia", "friendlyName">>

onyxiaIsSharedFormFieldPath == <<"onyxia", "share">>

\* The values the user gives to the fields: texts, and a boolean to
\* onyxia.share.
FormFieldValues ==
    { [path |-> path, value |-> value] :
      path \in { <<"resources", "cpu">>, <<"service", "image">>,
                 onyxiaFriendlyNameFormFieldPath },
      value \in {"v1", "v2"} }
    \cup { [path |-> onyxiaIsSharedFormFieldPath, value |-> value] : value \in BOOLEAN }

\* The launcher ready on a chart, each field having its default: a form of
\* the chart's own fields, or the form of the fields of onyxia.
LauncherReadyStates ==
    { [stateDescription |-> "ready",
       catalogId |-> catalogId,
       chartName |-> "jupyter",
       chartVersion |-> chartVersion,
       k8sRandomSubdomain |-> "123456",
       formFields |-> formFields,
       defaultFormFieldsValue |-> formFields] :
      catalogId \in {"ide", "db"}, chartVersion \in {"1.0.0", "2.0.0"},
      formFields \in
          { << [path |-> <<"resources", "cpu">>, value |-> "v1"],
               [path |-> <<"service", "image">>, value |-> "v1"] >>,
            << [path |-> onyxiaFriendlyNameFormFieldPath, value |-> "v1"],
               [path |-> onyxiaIsSharedFormFieldPath, value |-> FALSE] >> } }

-----------------------------------------------------------------------------
(* Launcher: thunks.initialize and thunks.changeChartVersion               *)
(* Each call of initialize is a run: its parameters, its Evt context (live  *)
(* until ctx.done() is called, which dispatches reset and detaches the      *)
(* handler of projectChanged), the await its asynchronous part has reached, *)
(* and the trace of what it dispatched.  The `cleanup` a run returns is     *)
(* held by the caller only: the runs that the handler of projectChanged and *)
(* changeChartVersion start return theirs to nobody.                        *)

\* onyxiaApi.getCatalogsAndCharts(): versions come most recent first.
CatalogsAndCharts ==
    [catalogs |-> << [id |-> "ide", name |-> "IDE",
                      repositoryUrl |-> "https://charts.example.org/ide"] >>,
     chartsByCatalogId |->
        [ide |-> << [name |-> "jupyter",
                     versions |-> << [version |-> "2.0.0", iconUrl |-> "icon-2"],
                                     [version |-> "1.0.0", iconUrl |-> "icon-1"] >>] >>]]

\* array.find(predicate): the index of the first match, 0 when there is none.
RECURSIVE findIndex(_, _, _, _)
findIndex(array, property, value, from) ==
    IF from > Len(array) THEN 0
    ELSE IF array[from][property] = value THEN from
    ELSE findIndex(array, property, value, from + 1)

\* Chart.getDefaultVersion(chart), of core/ports/OnyxiaApi, which is not among
\* the sources: the first version of the chart.
getDefaultVersion(chart) == chart.versions[1].version

\* Faulty variant: the pinned version is ignored.
chartVersionOfFaulty(chart, pinnedChartVersion, defaultChartVersion) ==
    defaultChartVersion

\* The chart version getChartInfos selects.
chartVersionOf(chart, pinnedChartVersion, defaultChartVersion) ==
    IF pinnedChartVersion # Undefined
    THEN IF findIndex(chart.versions, "version", pinnedChartVersion, 1) = 0
         THEN defaultChartVersion
         ELSE pinnedChartVersion
    ELSE defaultChartVersion

\* privateThunks.getChartInfos(params), on what getCatalogsAndCharts answered.
getChartInfos(answer, params) ==
    LET catalogIndex == findIndex(answer.catalogs, "id", params.catalogId, 1)
    IN  IF catalogIndex = 0 THEN [threw |-> TRUE]
        ELSE
        LET catalog == answer.catalogs[catalogIndex]
            charts == answer.chartsByCatalogId[params.catalogId]
            chartIndex == findIndex(charts, "name", params.chartName, 1)
        IN  IF chartIndex = 0 THEN [threw |-> TRUE]
            ELSE
            LET chart == charts[chartIndex]
                defaultChartVersion == getDefaultVersion(chart)
                pinnedIndex ==
                    findIndex(chart.versions, "version", params.pinnedChartVersion, 1)
                chartVersion ==
                    chartVersionOf(chart, params.pinnedChartVersion, defaultChartVersion)
            IN  [threw |-> FALSE,
                 alerted |-> params.pinnedChartVersion # Undefined /\ pinnedIndex = 0,
                 catalogName |-> catalog.name,
                 catalogRepositoryUrl |-> catalog.repositoryUrl,
                 chartIconUrl |->
                     chart.versions[findIndex(chart.versions, "version",
                                              chartVersion, 1)].iconUrl,
                 defaultChartVersion |-> defaultChartVersion,
                 chartVersion |-> chartVersion,
                 availableChartVersions |->
                     [i \in 1..Len(chart.versions) |-> chart.versions[i].version]]

\* getChartValuesSchemaJson({ xOnyxiaContext }): the values schema of the chart.
ChartValuesSchema ==
    LET leaf == Description("string", Absent, Absent, FALSE, NoHidden, Absent, Absent)
    IN  SchemaObject(
            << [key |-> "resources",
                node |-> SchemaObject(<< [key |-> "cpu", node |-> leaf] >>)] >>)

\* The form fields getInitialFormFields gives, each with the default as value.
initialFormFields(valuesSchema, formFieldsValueDifferentFromDefault) ==
    LET formFields ==
            getInitialFormFields(
                [valuesSchema |-> valuesSchema,
                 formFieldsValueDifferentFromDefault |-> formFieldsValueDifferentFromDefault,
                 isRestorableConfigSaved |-> FALSE]).formFields
    IN  \* "v1" is the default every property of ChartValuesSchema declares
        [i \in 1..Len(formFields) |-> [path |-> formFields[i].path, value |-> "v1"]]

RECURSIVE formFieldsValueApplied(_, _)
formFieldsValueApplied(state, formFieldsValue) ==
    IF formFieldsValue = << >> THEN state
    ELSE formFieldsValueApplied(formFieldValueChanged(state, Head(formFieldsValue)),
                                Tail(formFieldsValue))

\* The reducer of actions.initialized, of ./state, which is not among the
\* sources: the launcher is ready on the chart, its form fields having their
\* defaults but for formFieldsValueDifferentFromDefault.
initialized(payload) ==
    formFieldsValueApplied(
        [stateDescription |-> "ready",
         catalogId |-> payload.catalogId,
         chartName |-> payload.chartName,
         chartVersion |-> payload.chartVersion,
         k8sRandomSubdomain |-> payload.k8sRandomSubdomain,
         formFields |-> payload.formFields,
         defaultFormFieldsValue |-> payload.formFields],
        payload.formFieldsValueDifferentFromDefault)

\* privateSelectors.formFieldsValueDifferentFromDefault(rootState), of
\* ./selectors, which is not among the sources: the fields whose value is not
\* their default, undefined unless ready.
formFieldsValueDifferentFromDefault(state) ==
    IF state.stateDescription # "ready" THEN Undefined
    ELSE SelectSeq(state.formFields,
                   LAMBDA f : \E d \in Range(state.defaultFormFieldsValue) :
                                  d.path = f.path /\ d.value # f.value)

\* The reducer of actions.reset, of ./state, which is not among the sources.
\* The reducers of initializationStarted and defaultChartVersionSelected
\* leave the description of the state as it is.
reset == LauncherNotInitialized

newRun(params, startedBy, parent) ==
    [params |-> params, startedBy |-> startedBy, parent |-> parent,
     ctx |-> "live", pc |-> "getChartInfos", chartInfos |-> ([threw |-> FALSE, chartVersion |-> Undefined]),
     trace |-> << "initializationStarted" >>,
     cleanupCalls |-> 0, projectChanges |-> 0]

\* The launcher seen by the thunks: its state and its runs.
Launcher(state, allRuns) ==
    [state |-> state, runs |-> allRuns, threw |-> FALSE, dispatched |-> << >>]

\* ctx.done() on run i: evtDoneOrAborted dispatches reset, once.
\* Faulty variant: the context is done without reset being dispatched.
ctxDoneFaulty(l, i) ==
    IF l.runs[i].ctx # "live" THEN l
    ELSE [l EXCEPT !.runs[i].ctx = "done"]

ctxDone(l, i) ==
    IF l.runs[i].ctx # "live" THEN l
    ELSE [l EXCEPT !.state = reset,
                   !.dispatched = Append(@, "reset"),
                   !.runs[i].ctx = "done",
                   !.runs[i].trace = Append(@, "reset")]

\* initialize(params), up to the return of { cleanup }: the assertion, then
\* initializationStarted, the context and the handler of projectChanged.
\* Faulty variant: the assertion is not made.
initializeFaulty(l, params, startedBy, parent) ==
    [l EXCEPT !.dispatched = Append(@, "initializationStarted"),
              !.runs = Append(@, newRun(params, startedBy, parent))]

initialize(l, params, startedBy, parent) ==
    IF l.state.stateDescription # "not initialized"
    THEN [l EXCEPT !.threw = TRUE]
    ELSE [l EXCEPT !.dispatched = Append(@, "initializationStarted"),
                   !.runs = Append(@, newRun(params, startedBy, parent))]

\* The handler of projectChanged of run i: cleanup(), then initialize(params).
\* Faulty variant: the run is cancelled and no other is started.
onProjectChangedFaulty(l, i) ==
    ctxDone([l EXCEPT !.runs[i].projectChanges = @ + 1], i)

onProjectChanged(l, i) ==
    initialize(ctxDone([l EXCEPT !.runs[i].projectChanges = @ + 1], i),
               l.runs[i].params, "projectChanged", i)

\* evtAction posts projectChanged: the handlers attached when it is posted
\* run, in the order they were attached.
RECURSIVE postProjectChanged(_, _)
postProjectChanged(l, attached) ==
    IF attached = << >> THEN l
    ELSE postProjectChanged(
             IF l.runs[Head(attached)].ctx = "live"
             THEN onProjectChanged(l, Head(attached))
             ELSE l,
             Tail(attached))

liveRuns(allRuns) == SelectSeq([i \in 1..Len(allRuns) |-> i],
                               LAMBDA i : allRuns[i].ctx = "live")

\* ---- what the caller and the environment do

\* The caller dispatches initialize(params) and keeps the cleanup; it has
\* called the cleanup of its previous call, if any.
Initialize(params) ==
    /\ launcherState.stateDescription = "not initialized" => Len(runs) < MaxRuns
    /\ \A i \in 1..Len(runs) : runs[i].startedBy = "caller" => runs[i].cleanupCalls > 0
    /\ LET l == initialize(Launcher(launcherState, runs), params, "caller", 0)
       IN  /\ launcherState' = l.state
           /\ runs' = l.runs
           /\ lnEvent' = [name |-> "initialize", threw |-> l.threw,
                          dispatched |-> l.dispatched]
    /\ UNCHANGED launches

\* The caller calls the cleanup it was returned by its call of initialize.
Cleanup(i) ==
    /\ runs[i].startedBy = "caller"
    /\ runs[i].cleanupCalls = 0
    /\ LET l == ctxDone(Launcher(launcherState, runs), i)
       IN  /\ launcherState' = l.state
           /\ runs' = [l.runs EXCEPT ![i].cleanupCalls = @ + 1]
           /\ lnEvent' = [name |-> "cleanup", threw |-> FALSE,
                          dispatched |-> l.dispatched]
    /\ UNCHANGED launches

\* The action projectManagement/projectChanged is dispatched.
ProjectChanged ==
    /\ Len(runs) + Len(liveRuns(runs)) <= MaxRuns
    /\ LET l == postProjectChanged(Launcher(launcherState, runs), liveRuns(runs))
       IN  /\ launcherState' = l.state
           /\ runs' = l.runs
           /\ lnEvent' = [name |-> "projectChanged", threw |-> l.threw,
                          dispatched |-> l.dispatched]
    /\ UNCHANGED launches

\* Whether changeChartVersion goes past its two early returns.
\* Faulty variant: asking for the current version is not an early return.
isChartVersionChangeFaulty(state, params) == state.stateDescription = "ready"

isChartVersionChange(state, params) ==
    IF state.stateDescription # "ready" THEN FALSE
    ELSE IF state.chartVersion = params.chartVersion THEN FALSE
    ELSE TRUE

\* changeChartVersion({ chartVersion })
changeChartVersion(params) ==
    /\ IF ~isChartVersionChange(launcherState, params)
       THEN /\ lnEvent' = [name |-> "changeChartVersion", params |-> params,
                           threw |-> FALSE, dispatched |-> << >>]
            /\ UNCHANGED << launcherState, runs >>
       ELSE LET l == initialize(
                        Launcher(reset, runs),
                        [catalogId |-> launcherState.catalogId,
                         chartName |-> launcherState.chartName,
                         chartVersion |-> params.chartVersion,
                         formFieldsValueDifferentFromDefault |->
                             formFieldsValueDifferentFromDefault(launcherState)],
                        "changeChartVersion", 0)
            IN  /\ Len(runs) < MaxRuns
                /\ launcherState' = l.state
                /\ runs' = l.runs
                /\ lnEvent' = [name |-> "changeChartVersion", params |-> params,
                               threw |-> l.threw,
                               dispatched |-> << "reset" >> \o l.dispatched]
    /\ UNCHANGED launches

\* changeFormFieldValue(params): formFieldValueChanged is dispatched, whatever
\* the state of the launcher.
ChangeFormFieldValue(params) ==
    /\ launcherState' = formFieldValueChanged(launcherState, params)
    /\ lnEvent' = [name |-> "changeFormFieldValue", threw |-> FALSE,
                   dispatched |-> << "formFieldValueChanged" >>]
    /\ UNCHANGED << runs, launches >>

\* restoreAllDefault(): the assertion, then formFieldValueChanged is
\* dispatched for each default value, in one call.
RestoreAllDefault ==
    /\ IF launcherState.stateDescription # "ready"
       THEN /\ lnEvent' = [name |-> "restoreAllDefault", threw |-> TRUE,
                           dispatched |-> << >>]
            /\ UNCHANGED launcherState
       ELSE /\ launcherState' =
                   formFieldsValueApplied(launcherState,
                                          launcherState.defaultFormFieldsValue)
            /\ lnEvent' = [name |-> "restoreAllDefault", threw |-> FALSE,
                           dispatched |->
                               [i \in DOMAIN launcherState.defaultFormFieldsValue |->
                                   "formFieldValueChanged"]]
    /\ UNCHANGED << runs, launches >>

\* changeFriendlyName(friendlyName): it dispatches changeFormFieldValue on the
\* path of the friendly name.
ChangeFriendlyName(friendlyName) ==
    ChangeFormFieldValue([path |-> onyxiaFriendlyNameFormFieldPath,
                          value |-> friendlyName])

\* Whether privateSelectors.isShared(rootState), of ./selectors, which is not
\* among the sources, is defined: the launcher is ready and its form has the
\* field onyxia.share.
isSharedDefined(state) ==
    /\ state.stateDescription = "ready"
    /\ findIndex(state.formFields, "path", onyxiaIsSharedFormFieldPath, 1) # 0

\* changeIsShared({ isShared }): the assertion, then it dispatches
\* changeFormFieldValue on the path of onyxia.share.
ChangeIsShared(params) ==
    IF ~isSharedDefined(launcherState)
    THEN /\ lnEvent' = [name |-> "changeIsShared", threw |-> TRUE, dispatched |-> << >>]
         /\ UNCHANGED << launcherState, runs, launches >>
    ELSE ChangeFormFieldValue([path |-> onyxiaIsSharedFormFieldPath,
                               value |-> params.isShared])

\* ---- the asynchronous part of run i

\* await dispatch(privateThunks.getChartInfos(...)) resolves.
ChartInfosFetched(i) ==
    /\ runs[i].pc = "getChartInfos"
    /\ runs' = [runs EXCEPT
          ![i].chartInfos =
              getChartInfos(CatalogsAndCharts,
                            [catalogId |-> runs[i].params.catalogId,
                             chartName |-> runs[i].params.chartName,
                             pinnedChartVersion |-> runs[i].params.chartVersion]),
          ![i].pc = IF getChartInfos(CatalogsAndCharts,
                                     [catalogId |-> runs[i].params.catalogId,
                                      chartName |-> runs[i].params.chartName,
                                      pinnedChartVersion |->
                                          runs[i].params.chartVersion]).threw
                    THEN "finished" ELSE "getHelmChartDetails"]
    /\ lnEvent' = [name |-> "chartInfosFetched", threw |-> FALSE, dispatched |-> << >>]
    /\ UNCHANGED << launcherState, launches >>

\* await onyxiaApi.getHelmChartDetails(...) resolves.
HelmChartDetailsFetched(i) ==
    /\ runs[i].pc = "getHelmChartDetails"
    /\ runs' = [runs EXCEPT ![i].pc = "getXOnyxiaContext"]
    /\ lnEvent' = [name |-> "helmChartDetailsFetched", threw |-> FALSE,
                   dispatched |-> << >>]
    /\ UNCHANGED << launcherState, launches >>

\* Whether the run goes on after the context is built.
\* Faulty variant: the completion status of the context is not looked at.
goesOnFaulty(run) == TRUE

goesOn(run) == run.ctx = "live"

\* `if (pinnedChartVersion === undefined)` after dispatching initialized.
\* Faulty variant: the test is on the selected version being the default one.
dispatchesDefaultChartVersionSelectedFaulty(run) ==
    run.chartInfos.chartVersion = run.chartInfos.defaultChartVersion

dispatchesDefaultChartVersionSelected(run) == run.params.chartVersion = Undefined

initializedPayload(run) ==
    [catalogId |-> run.params.catalogId,
     chartName |-> run.params.chartName,
     chartVersion |-> run.chartInfos.chartVersion,
     formFields |-> initialFormFields(ChartValuesSchema,
                                      run.params.formFieldsValueDifferentFromDefault),
     formFieldsValueDifferentFromDefault |->
         run.params.formFieldsValueDifferentFromDefault,
     k8sRandomSubdomain |-> "123456"]

\* await dispatch(privateThunks.getXOnyxiaContext()) resolves: the run stops
\* if its context is done, and otherwise dispatches initialized, and
\* defaultChartVersionSelected when no version was pinned.
XOnyxiaContextBuilt(i) ==
    /\ runs[i].pc = "getXOnyxiaContext"
    /\ LET dispatchedNow ==
               IF ~goesOn(runs[i]) THEN << >>
               ELSE << "initialized" >>
                    \o (IF dispatchesDefaultChartVersionSelected(runs[i])
                        THEN << "defaultChartVersionSelected" >> ELSE << >>)
       IN  /\ runs' = [runs EXCEPT ![i].pc = "finished",
                                   ![i].trace = @ \o dispatchedNow]
           /\ launcherState' = IF goesOn(runs[i])
                               THEN initialized(initializedPayload(runs[i]))
                               ELSE launcherState
           /\ lnEvent' = [name |-> "xOnyxiaContextBuilt", threw |-> FALSE,
                          dispatched |-> dispatchedNow]
    /\ UNCHANGED launches

\* ---- the inputs
InitializeIdle ==
    /\ runs = << >>
    /\ lnEvent = ([name |-> "none", threw |-> FALSE, dispatched |-> << >>])

LauncherIdle ==
    /\ launcherState = LauncherNotInitialized
    /\ launches = << >>
    /\ InitializeIdle

-----------------------------------------------------------------------------
(* getVaultClientTranslator: the CLI commands shown for the operations     *)
(* A value of a secret is a record: a string is given by its characters, a  *)
(* number or a boolean by the text `${value}` gives, anything else by the   *)
(* text JSON.stringify(value, null, 2) gives.                               *)

RECURSIVE slashJoined(_)
slashJoined(segments) ==
    IF segments = << >> THEN ""
    ELSE IF Len(segments) = 1 THEN Head(segments)
    ELSE Head(segments) \o "/" \o slashJoined(Tail(segments))

\* pathJoin(engine, path), as the string it is in a command.
\* Faulty variant: the engine is left out.
cliTargetFaulty(engineOfTranslator, path) == slashJoined(pathJoin(<< path >>))

cliTarget(engineOfTranslator, path) ==
    slashJoined(pathJoin(<< <<engineOfTranslator>>, path >>))

\* value.replace(/"/g, '\\"')
RECURSIVE escapeQuotes(_)
escapeQuotes(chars) ==
    IF chars = << >> THEN ""
    ELSE (IF Head(chars) = "\"" THEN "\\\"" ELSE Head(chars))
         \o escapeQuotes(Tail(chars))

RECURSIVE joinWith(_, _)
joinWith(strings, separator) ==
    IF strings = << >> THEN ""
    ELSE IF Len(strings) = 1 THEN Head(strings)
    ELSE Head(strings) \o separator \o joinWith(Tail(strings), separator)

\* What follows key= in an argument of vault kv put.
cliValue(value) ==
    CASE value.type = "string" -> "\"" \o escapeQuotes(value.chars) \o "\""
      [] value.type \in {"number", "boolean"} -> value.text
      [] OTHER -> joinWith(<< "-<<EOF", "heredoc > " \o value.json, "heredoc> EOF" >>,
                           "\n")

\* The elements of the array that put.buildCmd joins.
putCmdLines(engineOfTranslator, path, secret) ==
    << "vault kv put " \o cliTarget(engineOfTranslator, path) >>
    \o [i \in 1..Len(secret) |-> secret[i].key \o "=" \o cliValue(secret[i].value)]

buildCmd(engineOfTranslator, op, params) ==
    CASE op = "list" -> "vault kv list " \o cliTarget(engineOfTranslator, params.path)
      [] op = "get" -> "vault kv get " \o cliTarget(engineOfTranslator, params.path)
      [] op = "put" ->
            joinWith(putCmdLines(engineOfTranslator, params.path, params.secret),
                     " \\\n")
      [] op = "delete" ->
            "vault kv delete " \o cliTarget(engineOfTranslator, params.path)

\* A text is the sequence of its pieces: the strings the code puts together
\* and the separators that join() puts between them.
RECURSIVE joined(_, _)
joined(texts, separator) ==
    IF texts = << >> THEN << >>
    ELSE IF Len(texts) = 1 THEN Head(texts)
    ELSE Head(texts) \o << separator >> \o joined(Tail(texts), separator)

\* `${array}`, which is what join() makes of an element that is an array:
\* array.join(",").
arrayToString(array) == joined([i \in 1..Len(array) |-> << array[i] >>], ",")

\* list.fmtResult({ result: { nodes, leafs } }): ...[nodes, leafs] spreads the
\* array of the two arrays, so that each of them is one element of the array
\* that is joined.
fmtResultOfList(result) ==
    joined(<< << "Keys" >>, << "----" >>,
              arrayToString(result.nodes), arrayToString(result.leafs) >>,
           "\n")

TranslatorNotCalled == [isCalled |-> FALSE, cmd |-> ""]

\* translator.list.fmtResult({ inputs, result }) is called.
FmtResult ==
    /\ ~trResult.isCalled
    /\ trInputs.op = "list"
    /\ "result" \in DOMAIN trInputs
    /\ trResult' = [isCalled |-> TRUE, cmd |-> "",
                    output |-> fmtResultOfList(trInputs.result)]
    /\ UNCHANGED trInputs

FmtInputs ==
    { [clientType |-> "CLI", engine |-> "kv", op |-> "list",
       params |-> [path |-> <<"a">>], result |-> result] :
      result \in ([nodes : SeqsUpTo(({"a", "b", "c"}), MaxKeys), leafs : SeqsUpTo(({"a", "b", "c"}), MaxKeys)]) }

\* translator[op].buildCmd(params) is called.
BuildCmd ==
    /\ ~trResult.isCalled
    /\ trResult' = [isCalled |-> TRUE,
                    cmd |-> buildCmd(trInputs.engine, trInputs.op, trInputs.params)]
    /\ UNCHANGED trInputs

\* ---- the inputs
TrValues ==
    { [type |-> "string", chars |-> <<"x">>],
      [type |-> "string", chars |-> <<"a", "\"", "b">>],
      [type |-> "number", text |-> "42"],
      [type |-> "boolean", text |-> "true"],
      [type |-> "object", json |-> "{}"] }

TrInputs ==
    { [clientType |-> "CLI", engine |-> e, op |-> op,
       params |-> [path |-> path]] :
      e \in Engines, op \in Ops \ {"put"}, path \in Paths }
    \cup { [clientType |-> "CLI", engine |-> e, op |-> "put",
            params |-> [path |-> path, secret |-> secret]] :
           e \in Engines, path \in Paths, secret \in ({ << >> } \cup { << [key |-> "k1",
                   value |-> value] >> : value \in TrValues } \cup { << [key |-> "k2",
                   value |-> value], [key |-> "k1",
                   value |-> value] >> : value \in TrValues }) }

TranslatorIdle ==
    /\ trInputs = [clientType |-> "CLI", engine |-> "kv", op |-> "list",
                   params |-> [path |-> <<"a">>]]
    /\ trResult = TranslatorNotCalled

-----------------------------------------------------------------------------
(* privateThunks.getChartInfos called alone, on any answer of               *)
(* getCatalogsAndCharts within the bounds.                                  *)

Versions == {"1.0.0", "2.0.0", "3.0.0"}

\* What getCatalogsAndCharts answers: the chart has at least one version, and
\* none twice.
CiAnswers ==
    { [catalogs |-> << [id |-> "ide", name |-> "IDE",
                        repositoryUrl |-> "https://charts.example.org/ide"] >>,
       chartsByCatalogId |->
          [ide |-> << [name |-> "vscode",
                       versions |-> << [version |-> "1.0.0", iconUrl |-> "vscode-1.0.0"] >>],
                      [name |-> "jupyter",
                       versions |->
                           [i \in 1..Len(versions) |->
                               [version |-> versions[i],
                                iconUrl |-> "jupyter-" \o versions[i]]]] >>]] :
      versions \in { versions \in SeqsUpTo(Versions, MaxVersions) :
                       /\ Len(versions) >= 1
                       /\ \A i, j \in 1..Len(versions) :
                             versions[i] = versions[j] => i = j } }

CiParams ==
    [catalogId : {"ide", "db"},
     chartName : {"jupyter", "vscode"},
     pinnedChartVersion : {Undefined} \cup Versions,
     answer : CiAnswers]

ChartInfosNotCalled == [isCalled |-> FALSE]

ChartInfosIdle ==
    /\ ciParams = CHOOSE params \in CiParams : TRUE
    /\ ciResult = ChartInfosNotCalled

\* dispatch(privateThunks.getChartInfos(params)), getCatalogsAndCharts
\* answering ciParams.answer.
GetChartInfos ==
    /\ ~ciResult.isCalled
    /\ ciResult' = [isCalled |-> TRUE] @@
                       getChartInfos(ciParams.answer,
                                     [catalogId |-> ciParams.catalogId,
                                      chartName |-> ciParams.chartName,
                                      pinnedChartVersion |-> ciParams.pinnedChartVersion])
    /\ UNCHANGED ciParams

-----------------------------------------------------------------------------
(* Specifications of the vault client *)

\* The client as createVaultSecretsManagerClient returns it, before any OIDC
\* access token is known.
InitVault ==
    /\ engine = "kv"
    /\ evtOidcAccessToken = Undefined
    /\ evtVaultToken = Undefined
    /\ currentCallCount = 0
    /\ pipeCalls = {}
    /\ pipeDropped = {}
    /\ memo = [t \in OidcTokens |-> "none"]
    /\ clientTokens = [t \in OidcTokens |-> Undefined]
    /\ loginPosts = [t \in OidcTokens |-> 0]
    /\ exchangeFailed = FALSE
    /\ requests = << >>
    /\ nbCalls = 0
    /\ SearchBarMounted
    /\ FormFieldsNotAsked
    /\ ContextNotAsked
    /\ LauncherIdle
    /\ TranslatorIdle
    /\ ChartInfosIdle

TokenChange(maxCalls) ==
    \E token \in OidcTokens \cup {Undefined} : OidcChange(token, maxCalls)

Microtask == \E c \in pipeCalls : AsyncOpResolved(c)

NextVault ==
    \/ TokenChange(MaxCalls) /\ UNCHANGED exceptVault
    \/ Microtask /\ UNCHANGED exceptVault
    \/ (\E jwt \in OidcTokens, clientToken \in VaultTokens :
            LoginResolve(jwt, clientToken)) /\ UNCHANGED exceptVault
    \/ (\E jwt \in OidcTokens : LoginReject(jwt)) /\ UNCHANGED exceptVault
    \/ (\E op \in {"get", "put"} : Call(op, <<"a">>, << >>, MaxRequests))
          /\ UNCHANGED exceptVault
    \/ (\E i \in 1..Len(requests) : RenewDone(i)) /\ UNCHANGED exceptVault
    \/ (\E i \in 1..Len(requests) : InterceptorReturned(i)) /\ UNCHANGED exceptVault

SpecVault == InitVault /\ [][NextVault]_vars

\* The tokens alone, no operation of the client being called.  The login
\* exchange is an HTTP request without a timeout: it may never be answered.
\* A handler whose awaited promise is resolved goes on in the end: the event
\* loop runs the continuations it has queued.
NextTokens ==
    \/ TokenChange(MaxTokenChanges) /\ UNCHANGED exceptVault
    \/ Microtask /\ UNCHANGED exceptVault
    \/ (\E jwt \in OidcTokens, clientToken \in VaultTokens :
            LoginResolve(jwt, clientToken)) /\ UNCHANGED exceptVault
    \/ (\E jwt \in OidcTokens : LoginReject(jwt)) /\ UNCHANGED exceptVault

SpecTokensFair ==
    /\ InitVault /\ [][NextTokens]_vars
    /\ WF_vars(Microtask /\ UNCHANGED exceptVault)

\* The client of any of the engines once a first vault token has been
\* obtained, used over every path.
InitClientOps ==
    /\ engine \in Engines
    /\ evtOidcAccessToken = "jwt1"
    /\ evtVaultToken = "vt1"
    /\ currentCallCount = 1
    /\ pipeCalls = {}
    /\ pipeDropped = {}
    /\ memo = [t \in OidcTokens |-> IF t = "jwt1" THEN "resolved" ELSE "none"]
    /\ clientTokens = [t \in OidcTokens |-> IF t = "jwt1" THEN "vt1" ELSE Undefined]
    /\ loginPosts = [t \in OidcTokens |-> IF t = "jwt1" THEN 1 ELSE 0]
    /\ exchangeFailed = FALSE
    /\ requests = << >>
    /\ nbCalls = 0
    /\ SearchBarMounted
    /\ FormFieldsNotAsked
    /\ ContextNotAsked
    /\ LauncherIdle
    /\ TranslatorIdle
    /\ ChartInfosIdle

NextClientOps ==
    \/ (\E op \in Ops \ {"put"}, path \in RequestPaths : Call(op, path, << >>, MaxOpsCalls))
          /\ UNCHANGED exceptVault
    \/ (\E path \in RequestPaths, secret \in Secrets \ {<< >>} :
            Call("put", path, secret, MaxOpsCalls))
          /\ UNCHANGED exceptVault
    \/ (\E i \in 1..Len(requests) : RenewDone(i)) /\ UNCHANGED exceptVault
    \/ (\E i \in 1..Len(requests) : InterceptorReturned(i)) /\ UNCHANGED exceptVault

-----------------------------------------------------------------------------
(* Specification of the search bar *)

VaultClientIdle ==
    /\ engine = "kv"
    /\ evtOidcAccessToken = Undefined
    /\ evtVaultToken = Undefined
    /\ currentCallCount = 0
    /\ pipeCalls = {}
    /\ pipeDropped = {}
    /\ memo = [t \in OidcTokens |-> "none"]
    /\ clientTokens = [t \in OidcTokens |-> Undefined]
    /\ loginPosts = [t \in OidcTokens |-> 0]
    /\ exchangeFailed = FALSE
    /\ requests = << >>
    /\ nbCalls = 0

InitSearchBar ==
    SearchBarMounted /\ VaultClientIdle /\ FormFieldsNotAsked /\ ContextNotAsked /\ LauncherIdle
    /\ TranslatorIdle
    /\ ChartInfosIdle

NextSearchBar ==
    \/ onRootClick /\ UNCHANGED exceptSb
    \/ onIconClick /\ UNCHANGED exceptSb
    \/ onClearButtonClick /\ UNCHANGED exceptSb
    \/ (\E value \in SearchTexts : onInputChange(value)) /\ UNCHANGED exceptSb
    \/ (\E eventKey \in Keys : onInputKeyDown(eventKey)) /\ UNCHANGED exceptSb
    \/ onClickAway /\ UNCHANGED exceptSb

SpecSearchBar == InitSearchBar /\ [][NextSearchBar]_vars

SpecClientOps == InitClientOps /\ [][NextClientOps]_vars

-----------------------------------------------------------------------------
(* Specification of getInitialFormFields *)

InitFormFields ==
    /\ ffParams \in
          [valuesSchema : ValuesSchemas,
           formFieldsValueDifferentFromDefault : FormFieldsValues,
           isRestorableConfigSaved : BOOLEAN]
    /\ ffResult = NotCalled
    /\ VaultClientIdle
    /\ SearchBarMounted
    /\ ContextNotAsked
    /\ LauncherIdle
    /\ TranslatorIdle
    /\ ChartInfosIdle

NextFormFields ==
    \/ GetInitialFormFields /\ UNCHANGED exceptFf

SpecFormFields == InitFormFields /\ [][NextFormFields]_vars

-----------------------------------------------------------------------------
(* Specification of getXOnyxiaContext: called once, on any of the inputs *)

InitContext ==
    /\ ctxParams \in CtxParams
    /\ ctxResult = ContextNotCalled
    /\ VaultClientIdle
    /\ SearchBarMounted
    /\ FormFieldsNotAsked
    /\ LauncherIdle
    /\ TranslatorIdle
    /\ ChartInfosIdle

NextContext ==
    \/ GetXOnyxiaContext /\ UNCHANGED exceptCtx
    \/ PublicIpFetched /\ UNCHANGED exceptCtx
    \/ SecretsManagerTokenGot /\ UNCHANGED exceptCtx
    \/ VaultBlockDone /\ UNCHANGED exceptCtx
    \/ S3ClientTokenGot /\ UNCHANGED exceptCtx
    \/ S3CredentialsDone /\ UNCHANGED exceptCtx
    \/ S3BlockDone /\ UNCHANGED exceptCtx
    \/ \E project \in CtxProjects, customS3Configs \in CtxCustomS3Configs,
          homeDirectoryPath \in {"/user-alice", "/project-g1"} :
          StoreChanged(project, customS3Configs, homeDirectoryPath) /\ UNCHANGED exceptCtx

SpecContext == InitContext /\ [][NextContext]_vars

-----------------------------------------------------------------------------
(* Specification of launch: the launcher is not initialized, or ready on a *)
(* chart; the user edits the form and launches.                            *)

InitLauncher ==
    /\ launcherState \in {LauncherNotInitialized} \cup LauncherReadyStates
    /\ launches = << >>
    /\ InitializeIdle
    /\ VaultClientIdle
    /\ SearchBarMounted
    /\ FormFieldsNotAsked
    /\ ContextNotAsked
    /\ TranslatorIdle
    /\ ChartInfosIdle

NextLauncher ==
    \/ Launch /\ UNCHANGED << inVars, exceptLn >>
    \/ (\E n \in 1..Len(launches) : helmInstallSettled(n, "resolved"))
          /\ UNCHANGED << inVars, exceptLn >>
    \/ (\E n \in 1..Len(launches) : helmInstallSettled(n, "rejected"))
          /\ UNCHANGED << inVars, exceptLn >>
    \/ (\E params \in FormFieldValues : ChangeFormFieldValue(params))
          /\ UNCHANGED exceptLn
    \/ RestoreAllDefault /\ UNCHANGED exceptLn
    \/ (\E friendlyName \in {"v1", "v2"} : ChangeFriendlyName(friendlyName))
          /\ UNCHANGED exceptLn
    \/ (\E isShared \in BOOLEAN : ChangeIsShared([isShared |-> isShared]))
          /\ UNCHANGED exceptLn

SpecLauncher == InitLauncher /\ [][NextLauncher]_vars

-----------------------------------------------------------------------------
(* Specification of initialize: the caller initializes the launcher and    *)
(* cleans up, each cleanup before the next initialize; meanwhile the       *)
(* project changes, the user picks chart versions and edits the form, and  *)
(* the pending requests of the runs are answered in any order.  The form   *)
(* is the one of ChartValuesSchema: it has neither a friendly name nor      *)
(* onyxia.share, and service.image is the path of no field of it.          *)

InitInitialize ==
    /\ LauncherIdle
    /\ VaultClientIdle
    /\ SearchBarMounted
    /\ FormFieldsNotAsked
    /\ ContextNotAsked
    /\ TranslatorIdle
    /\ ChartInfosIdle

NextInitialize ==
    \/ (\E params \in [catalogId : {"ide"}, chartName : {"jupyter"},
                         chartVersion : {Undefined, "1.0.0"},
                         formFieldsValueDifferentFromDefault : { << >> }] :
            Initialize(params)) /\ UNCHANGED exceptLn
    \/ (\E i \in 1..Len(runs) : Cleanup(i)) /\ UNCHANGED exceptLn
    \/ ProjectChanged /\ UNCHANGED exceptLn
    \/ (\E chartVersion \in {"1.0.0", "2.0.0"} :
            changeChartVersion([chartVersion |-> chartVersion])) /\ UNCHANGED exceptLn
    \/ (\E params \in { f \in FormFieldValues : f.path[1] # "onyxia" } :
            ChangeFormFieldValue(params)) /\ UNCHANGED exceptLn
    \/ RestoreAllDefault /\ UNCHANGED exceptLn
    \/ ChangeFriendlyName("v2") /\ UNCHANGED exceptLn
    \/ ChangeIsShared([isShared |-> TRUE]) /\ UNCHANGED exceptLn
    \/ (\E i \in 1..Len(runs) : ChartInfosFetched(i)) /\ UNCHANGED exceptLn
    \/ (\E i \in 1..Len(runs) : HelmChartDetailsFetched(i)) /\ UNCHANGED exceptLn
    \/ (\E i \in 1..Len(runs) : XOnyxiaContextBuilt(i)) /\ UNCHANGED exceptLn

SpecInitialize == InitInitialize /\ [][NextInitialize]_vars

-----------------------------------------------------------------------------
(* Specification of the CLI translator: buildCmd is called once, for any   *)
(* operation and inputs, next to a client of the same engine.              *)

InitTranslator ==
    /\ trInputs \in TrInputs
    /\ trResult = TranslatorNotCalled
    /\ engine = trInputs.engine
    /\ evtOidcAccessToken = Undefined
    /\ evtVaultToken = Undefined
    /\ currentCallCount = 0
    /\ pipeCalls = {}
    /\ pipeDropped = {}
    /\ memo = [t \in OidcTokens |-> "none"]
    /\ clientTokens = [t \in OidcTokens |-> Undefined]
    /\ loginPosts = [t \in OidcTokens |-> 0]
    /\ exchangeFailed = FALSE
    /\ requests = << >>
    /\ nbCalls = 0
    /\ SearchBarMounted
    /\ FormFieldsNotAsked
    /\ ContextNotAsked
    /\ LauncherIdle
    /\ ChartInfosIdle

NextTranslator ==
    \/ BuildCmd /\ UNCHANGED exceptTr

SpecTranslator == InitTranslator /\ [][NextTranslator]_vars

-----------------------------------------------------------------------------
(* Specification of list.fmtResult: called once, on any result of list *)

InitFmtResult ==
    /\ trInputs \in FmtInputs
    /\ trResult = TranslatorNotCalled
    /\ VaultClientIdle
    /\ SearchBarMounted
    /\ FormFieldsNotAsked
    /\ ContextNotAsked
    /\ LauncherIdle
    /\ ChartInfosIdle

NextFmtResult ==
    \/ FmtResult /\ UNCHANGED exceptTr

SpecFmtResult == InitFmtResult /\ [][NextFmtResult]_vars

-----------------------------------------------------------------------------
(* Specification of getChartInfos: called once, on any of the inputs *)

InitChartInfos ==
    /\ ciParams \in CiParams
    /\ ciResult = ChartInfosNotCalled
    /\ VaultClientIdle
    /\ SearchBarMounted
    /\ FormFieldsNotAsked
    /\ ContextNotAsked
    /\ LauncherIdle
    /\ TranslatorIdle

NextChartInfos ==
    \/ GetChartInfos /\ UNCHANGED exceptCi

SpecChartInfos == InitChartInfos /\ [][NextChartInfos]_vars

-----------------------------------------------------------------------------
(* Claims on the vault client *)

\* What a request holds at each stage of the interceptor: the value awaited
\* from evtVaultToken.waitFor(nonNullable()) is a vault token, and the request
\* that has gone out carries it as X-Vault-Token.
C1_SentWithToken ==
    \A i \in 1..Len(requests) :
        /\ requests[i].stage \in {"renewing", "waiting"} =>
              requests[i].vaultToken = Undefined
        /\ requests[i].stage \in {"resolved", "sent"} =>
              requests[i].vaultToken \in VaultTokens
        /\ requests[i].stage = "sent" =>
              requests[i].headers =
                  [sent |-> TRUE, token |-> requests[i].vaultToken]
        /\ requests[i].stage # "sent" => ~requests[i].headers.sent

\* A request starts by awaiting the renewal; its wait for a vault token ends
\* in a step where evtVaultToken holds a value that is not undefined, which is
\* the value the request keeps; a request never goes out in the step that
\* ends its wait, nor before, and once gone out it is left alone.
C1_InterceptorStep ==
    \A i \in 1..Len(requests') :
        IF i > Len(requests)
        THEN requests'[i].stage = "renewing"
        ELSE /\ requests[i].stage = "sent" => requests'[i] = requests[i]
             /\ requests[i].stage = "renewing" =>
                   /\ requests'[i].stage \in {"renewing", "waiting", "resolved"}
                   /\ requests'[i].stage = "waiting" => evtVaultToken' = Undefined
             /\ requests[i].stage = "waiting" =>
                   /\ requests'[i].stage \in {"waiting", "resolved"}
                   /\ evtVaultToken' = Undefined => requests'[i].stage = "waiting"
             /\ requests[i].stage = "resolved" =>
                   /\ requests'[i].stage \in {"resolved", "sent"}
                   /\ requests'[i].vaultToken = requests[i].vaultToken
             /\ requests[i].stage # "resolved" /\ requests'[i].stage = "resolved" =>
                   /\ evtVaultToken' # Undefined
                   /\ requests'[i].vaultToken = evtVaultToken'

\* C1: no request of the secrets-manager client is sent without a vault token.
\* Every request first awaits the renewal of the OIDC access token, then waits
\* until evtVaultToken holds a value that is not undefined, and goes out with
\* that value as X-Vault-Token; while the vault token is undefined the request
\* stays pending.
C1_NoRequestWithoutVaultToken ==
    [](C1_SentWithToken) /\ [][C1_InterceptorStep]_vars

\* A request that waited for a vault token has gone out with the one that was
\* published, the vault token having become undefined before the request went
\* out, while another request is still waiting for a vault token.
C1_Witness ==
    \E i, j \in 1..Len(requests) :
        /\ requests[i].stage = "sent" /\ requests[i].headers.token \in VaultTokens
        /\ evtVaultToken = Undefined
        /\ requests[j].stage = "waiting"
        /\ j < i

\* C2: the vault token follows the OIDC access token.  While the OIDC access
\* token is undefined the vault token is undefined; while it is t, a login
\* exchange of t has been sent, and once that exchange has succeeded the vault
\* token eventually is the client_token it returned, unless the OIDC access
\* token changes again.
C2_VaultTokenRefreshed ==
    /\ [](evtOidcAccessToken = Undefined => evtVaultToken = Undefined)
    /\ [](\A t \in OidcTokens :
            evtOidcAccessToken = t =>
                \/ loginPosts[t] >= 1 /\ memo[t] \in {"pending", "resolved"}
                \/ exchangeFailed)
    /\ \A t \in OidcTokens :
          (evtOidcAccessToken = t /\ memo[t] = "resolved") ~>
              \/ evtOidcAccessToken # t
              \/ evtVaultToken = clientTokens[t]

\* The OIDC access token has changed from jwt1 to jwt2 and the vault token is
\* now the one exchanged for jwt2, which differs from the one of jwt1.
C2_Witness ==
    /\ evtOidcAccessToken = "jwt2"
    /\ memo["jwt1"] = "resolved" /\ memo["jwt2"] = "resolved"
    /\ clientTokens["jwt1"] # clientTokens["jwt2"]
    /\ evtVaultToken = clientTokens["jwt2"]

\* The vault token exchanged for an OIDC access token, undefined for undefined.
C17_VaultTokenOf(oidcAccessToken) ==
    IF oidcAccessToken = Undefined THEN Undefined ELSE clientTokens[oidcAccessToken]

\* Every login exchange has been answered and no handler of asyncPipe is left
\* at its await.
C17_NoExchangePending ==
    /\ \A t \in OidcTokens : memo[t] # "pending"
    /\ pipeCalls = {}

\* A handler of asyncPipe that goes on for a call that is no longer the last
\* one leaves evtVaultToken alone, and whenever evtVaultToken changes it
\* becomes the vault token of the OIDC access token of that moment.
C17_Step ==
    /\ \A c \in pipeCalls \ pipeCalls' :
          c.thisCallCount # currentCallCount => evtVaultToken' = evtVaultToken
    /\ evtVaultToken' # evtVaultToken
          => evtVaultToken' = C17_VaultTokenOf(evtOidcAccessToken)'

\* C17: a vault token obtained late for an older OIDC access token never
\* replaces the current one, and once no login exchange is pending
\* evtVaultToken is the vault token of the most recent OIDC access token,
\* however the exchanges completed.
C17_AsStated ==
    /\ [][C17_Step]_vars
    /\ [](C17_NoExchangePending
            => evtVaultToken = C17_VaultTokenOf(evtOidcAccessToken))

\* Once the exchange of a token has succeeded, it stays so, no POST is sent
\* for the token any more and its vault token is kept; in particular the step
\* in which the OIDC access token takes that value again sends no POST at all.
C18_Kept ==
    \A t \in OidcTokens :
        memo[t] = "resolved" =>
            /\ memo'[t] = "resolved"
            /\ loginPosts'[t] = loginPosts[t]
            /\ clientTokens'[t] = clientTokens[t]
            /\ (evtOidcAccessToken # t /\ evtOidcAccessToken' = t)
                  => loginPosts' = loginPosts

\* The handlers that go on in the step, of those that a change of the OIDC
\* access token to a value whose exchange had succeeded has left at their await.
C18_GoingOn == { c \in pipeCalls \ pipeCalls' : c.promise = "resolved" }

endpoint(op) == IF op = "list" THEN "metadata" ELSE "data"

\* The segments of a secret path once empty and "." segments are dropped and
\* "x/.." pairs cancelled, a trailing slash being kept.
walked(path) ==
    normalizeString(path, TRUE, << >>)
        \o (IF Len(path) >= 2 /\ path[Len(path)] = "" THEN <<"">> ELSE << >>)

climbs(path) == LET w == walked(path) IN Len(w) > 0 /\ w[1] = ".."

C3_OneRequestPerCall ==
    \A n \in 1..nbCalls :
        Cardinality({ i \in 1..Len(requests) : requests[i].call.n = n }) = 1

C3_Request(r) ==
    /\ r.config.method = (CASE r.call.op = "list" -> "GET"
                            [] r.call.op = "get" -> "GET"
                            [] r.call.op = "put" -> "PUT"
                            [] r.call.op = "delete" -> "DELETE")
    /\ r.config.params = (IF r.call.op = "list" THEN << [list |-> "true"] >> ELSE << >>)
    /\ r.config.body = (IF r.call.op = "put" THEN << [data |-> r.call.secret] >> ELSE << >>)

C3_OnVersionedPath(r) ==
    r.config.url = << "v1", engine, endpoint(r.call.op) >> \o walked(r.call.path)

\* C3 as stated: for every path p, each operation issues exactly one request,
\* list a GET on v1/e/metadata/p with list=true, get a GET on v1/e/data/p, put
\* a PUT on v1/e/data/p with body {data: secret}, delete a DELETE on
\* v1/e/data/p.
C3_AsStated ==
    /\ C3_OneRequestPerCall
    /\ \A i \in 1..Len(requests) :
          C3_Request(requests[i]) /\ C3_OnVersionedPath(requests[i])

\* C3 amended: the same, the path of the request being v1/e/metadata/p or
\* v1/e/data/p for every path p whose ".." segments do not climb above its
\* own root.
C3_VersionedPathUnlessClimbing ==
    /\ C3_OneRequestPerCall
    /\ \A i \in 1..Len(requests) :
          /\ C3_Request(requests[i])
          /\ ~climbs(requests[i].call.path) => C3_OnVersionedPath(requests[i])

\* A secret has been put on /a and the request has gone out.
C3_Witness ==
    \E i \in 1..Len(requests) :
        /\ requests[i].stage = "sent"
        /\ requests[i].call.op = "put"
        /\ requests[i].call.path = <<"", "a">>
        /\ requests[i].call.secret # << >>
        /\ requests[i].config.url = << "v1", engine, "data", "a" >>

-----------------------------------------------------------------------------
(* Claims on the CLI translator *)

\* The request the client issues for the operation the command was built for.
C11_RequestUrl ==
    axiosCalls(trInputs.op, trInputs.params.path,
               IF trInputs.op = "put" THEN trInputs.params.secret ELSE << >>)[1].url

\* <engine>/<path>, the engine and the path being those of the request.
C11_RequestTarget ==
    LET url == C11_RequestUrl
    IN  IF Len(url) >= 3 /\ url[3] = endpoint(trInputs.op)
        THEN slashJoined(<< url[2] >> \o SubSeq(url, 4, Len(url)))
        ELSE slashJoined(SubSeq(url, 2, Len(url)))

C11_Arguments ==
    IF trInputs.op = "put"
    THEN [i \in 1..Len(trInputs.params.secret) |->
             trInputs.params.secret[i].key \o "="
                 \o cliValue(trInputs.params.secret[i].value)]
    ELSE << >>

C11_SameAsRequest ==
    trResult.cmd =
        joinWith(<< "vault kv " \o trInputs.op \o " " \o C11_RequestTarget >>
                 \o C11_Arguments, " \\\n")

\* C11 as stated: for every operation and every path, the command is
\* vault kv <op> <engine>/<path>, with the engine and the path of the HTTP
\* request the client issues for the same inputs, put being followed by one
\* key=value argument per entry of the secret, in entry order.
C11_AsStated == trResult.isCalled => C11_SameAsRequest

\* C11 amended: the same, for every path whose ".." segments do not climb
\* above its own root.
C11_SameTargetUnlessClimbing ==
    trResult.isCalled /\ ~climbs(trInputs.params.path) => C11_SameAsRequest

\* The command of a put on a/ with two entries has been built: the
\* request goes to v1/onyxia-kv/data/a/.
C11_Witness ==
    /\ trResult.isCalled
    /\ trInputs.op = "put"
    /\ trInputs.engine = "onyxia-kv"
    /\ trInputs.params.path = <<"a", "">>
    /\ Len(trInputs.params.secret) = 2
    /\ trInputs.params.secret[1].value.type = "string"
    /\ C11_RequestUrl = <<"v1", "onyxia-kv", "data", "a", "">>
    /\ ~climbs(trInputs.params.path)

\* The lines of a text: its pieces between the line feeds.
RECURSIVE C26_Lines(_, _)
C26_Lines(text, line) ==
    IF text = << >> THEN << line >>
    ELSE IF Head(text) = "\n" THEN << line >> \o C26_Lines(Tail(text), << >>)
    ELSE C26_Lines(Tail(text), Append(line, Head(text)))

C26_OneLineEach(keys) == [i \in 1..Len(keys) |-> << keys[i] >>]

\* C26: the text fmtResult gives for list is the lines 'Keys' and '----'
\* followed by one line per key, the nodes first and then the leafs, each in
\* the order given: 2 + |nodes| + |leafs| lines.
C26_OneLinePerKey ==
    (trResult.isCalled /\ "output" \in DOMAIN trResult) =>
        LET lines == C26_Lines(trResult.output, << >>)
            result == trInputs.result
        IN  /\ Len(lines) = 2 + Len(result.nodes) + Len(result.leafs)
            /\ lines = << << "Keys" >>, << "----" >> >>
                           \o C26_OneLineEach(result.nodes)
                           \o C26_OneLineEach(result.leafs)

-----------------------------------------------------------------------------
(* Claims on the search bar *)

C10_Step ==
    /\ sbEvent' = "rootClick" => isActive'
    /\ isActive /\ ~isActive' =>
          /\ sbEvent' \in {"clickAway", "keyDown:Enter", "keyDown:Escape"}
          /\ search = << >>
    /\ isActive /\ search # << >> => isActive'

\* C10: a collapsed search bar has an empty search text.  The bar starts
\* collapsed with an empty text, a click on it expands it, and it collapses
\* only on a click away, Enter or Escape, and only when the text is empty at
\* that moment; with a text these events leave it expanded.
C10_CollapsedBarIsEmpty ==
    /\ ~isActive /\ search = << >>
    /\ [](~isActive => search = << >>)
    /\ [][C10_Step]_vars

\* The user has typed a text, cleared it with Escape and collapsed the bar
\* with a second Escape.
C10_Witness ==
    /\ ~isActive
    /\ sbEvent = "keyDown:Escape"
    /\ lastSearchChange # << >>

\* C19: the last value passed to onSearchChange is the text held by the search
\* bar (the empty string before any call), whatever the user has done: typing,
\* clear button, Escape, Enter, click away, click.
C19_ParentKnowsSearch == lastSearchChange = search

\* C20: Escape in the input always empties the text and collapses the bar
\* only if the text was empty before the key press, so that Escape on a text
\* leaves the bar expanded and empty; Enter never changes the text; any other
\* key changes neither the text nor whether the bar is expanded.
C20_Step ==
    /\ sbEvent' = "keyDown:Escape" =>
          /\ search' = << >>
          /\ isActive' = (isActive /\ search # << >>)
    /\ sbEvent' = "keyDown:Enter" => search' = search
    /\ sbEvent' = "keyDown:irrelevant" => search' = search /\ isActive' = isActive

C20_EscapeClearsThenCollapses == [][C20_Step]_vars

\* Escape has just been pressed on a text: the text is empty and the bar is
\* still expanded.
C20_Witness ==
    /\ sbEvent = "keyDown:Escape"
    /\ isActive
    /\ search = << >>
    /\ lastSearchChange # << >>

-----------------------------------------------------------------------------
(* Claims on getInitialFormFields *)

\* The node that a chain of property keys leads to from a node of the schema.
RECURSIVE hasNodeAt(_, _)
hasNodeAt(node, path) ==
    IF path = << >> THEN TRUE
    ELSE /\ node.hasProperties
         /\ \E i \in 1..Len(node.properties) :
               /\ node.properties[i].key = Head(path)
               /\ hasNodeAt(node.properties[i].node, Tail(path))

RECURSIVE nodeAt(_, _)
nodeAt(node, path) ==
    IF path = << >> THEN node
    ELSE LET i == CHOOSE j \in 1..Len(node.properties) :
                    node.properties[j].key = Head(path)
         IN  nodeAt(node.properties[i].node, Tail(path))

\* The positions, in declaration order, of the keys of a chain.
RECURSIVE declarationIndexes(_, _)
declarationIndexes(node, path) ==
    IF path = << >> THEN << >>
    ELSE LET i == CHOOSE j \in 1..Len(node.properties) :
                    node.properties[j].key = Head(path)
         IN  << i >> \o declarationIndexes(node.properties[i].node, Tail(path))

\* The positions of the keys of a chain, each among the entries that
\* Object.entries gives for the object that declares it.
RECURSIVE entryIndexes(_, _)
entryIndexes(node, path) ==
    IF path = << >> THEN << >>
    ELSE LET entries == ObjectEntries(node.properties)
             i == CHOOSE j \in 1..Len(entries) : entries[j].key = Head(path)
         IN  << i >> \o entryIndexes(entries[i].node, Tail(path))

isBefore(s, t) ==
    \E k \in 1..Len(s) :
        /\ k <= Len(t)
        /\ \A j \in 1..(k - 1) : s[j] = t[j]
        /\ s[k] < t[k]

isTraversed(node) == node.type = "object" /\ node.hasProperties

\* The chains of property keys that lead from a node to the leaves under it.
RECURSIVE leafPathsUnder(_, _)
leafPathsUnder(node, path) ==
    IF ~isTraversed(node) THEN { path }
    ELSE UNION { leafPathsUnder(node.properties[i].node,
                                Append(path, node.properties[i].key)) :
                 i \in 1..Len(node.properties) }

LeafPaths(schema) == leafPathsUnder(schema, << >>)

ffFields == ffResult.result.formFields
ffInfos == ffResult.result.infosAboutWhenFieldsShouldBeHidden
ffSensitive == ffResult.result.sensitiveConfigurations

C5_Kind(d, f) ==
    /\ d.render = "slider" =>
          /\ f.type = "slider"
          /\ d.sliderExtremity = "down" =>
                f.sliderVariation = "range" /\ f.sliderExtremity = "down"
          /\ d.sliderExtremity = "up" =>
                f.sliderVariation = "range" /\ f.sliderExtremity = "up"
          /\ d.sliderExtremity \notin {"down", "up"} => f.sliderVariation = "simple"
    /\ d.render # "slider" =>
          /\ f.sliderVariation = Absent
          /\ d.type = "boolean" => f.type = "boolean"
          /\ d.type \in {"object", "array"} => f.type = d.type /\ f.valueType = "yaml"
          /\ d.type \in {"integer", "number"} => f.type = "integer"
          /\ d.type = "string" =>
                /\ d.render = "list" => f.type = "enum" /\ f.enum = d.listEnum
                /\ d.render # "list" /\ d.hasEnum => f.type = "enum" /\ f.enum = d.enum
                /\ d.render # "list" /\ ~d.hasEnum =>
                      /\ f.type = (IF d.render = "password" THEN "password" ELSE "text")
                      /\ f.doRenderAsTextArea = (d.render = "textArea")
    /\ f.type \in {"slider", "boolean", "object", "array", "integer", "enum",
                    "text", "password"}

\* C5: getInitialFormFields gives every leaf of the values schema one field
\* kind, chosen in this order: render "slider" gives a slider whatever the
\* type (range down, range up, or else simple); else type boolean a boolean
\* field; else type object or array a YAML-valued field; else type integer or
\* number an integer field; else render "list" an enum over listEnum; else an
\* enum declaration an enum over enum; else a text field, of type password
\* for render "password" and a text area for render "textArea".
C5_FieldKindByOrder ==
    ffResult.isCalled =>
        \A i \in 1..Len(ffFields) :
            /\ hasNodeAt(ffParams.valuesSchema, ffFields[i].path)
            /\ C5_Kind(nodeAt(ffParams.valuesSchema, ffFields[i].path), ffFields[i])

\* A boolean property rendered as a slider has given a slider, and not a
\* boolean field.
C5_Witness ==
    /\ ffResult.isCalled
    /\ \E i \in 1..Len(ffFields) :
          /\ nodeAt(ffParams.valuesSchema, ffFields[i].path).type = "boolean"
          /\ nodeAt(ffParams.valuesSchema, ffFields[i].path).render = "slider"
          /\ nodeAt(ffParams.valuesSchema, ffFields[i].path).sliderExtremity = "up"
          /\ ffFields[i].type = "slider"

RECURSIVE concat(_)
concat(strs) == IF strs = << >> THEN "" ELSE Head(strs) \o concat(Tail(strs))

RECURSIVE joinWithSlash(_)
joinWithSlash(strs) ==
    IF Len(strs) = 1 THEN Head(strs)
    ELSE Head(strs) \o "/" \o joinWithSlash(Tail(strs))

C6_Visibility(d, isHid) ==
    /\ isHid.kind \in {"boolean", "object"}
    /\ d.hidden.kind = "boolean" => isHid = HiddenBoolean(d.hidden.bool)
    /\ d.hidden.kind = "object" =>
          /\ isHid.kind = "object"
          /\ isHid.value = d.hidden.value
          /\ Len(isHid.path) =
                1 + Cardinality({ k \in 1..Len(d.hidden.path) : d.hidden.path[k] = "/" })
          /\ joinWithSlash(isHid.path) = concat(d.hidden.path)
    /\ d.hidden.kind = Absent =>
          /\ d.xOnyxiaHidden # Absent => isHid = HiddenBoolean(d.xOnyxiaHidden = "true")
          /\ d.xOnyxiaHidden = Absent => isHid = HiddenBoolean(FALSE)

\* C6: the visibility entry of a leaf is the schema's `hidden` when that is a
\* boolean; {path: hidden.path split on "/", value: hidden.value} when `hidden`
\* is an object; and, only when `hidden` is absent, x-onyxia.hidden if that is
\* defined and false otherwise.
C6_HiddenTakesPrecedence ==
    ffResult.isCalled =>
        \A i \in 1..Len(ffInfos) :
            /\ hasNodeAt(ffParams.valuesSchema, ffInfos[i].path)
            /\ C6_Visibility(nodeAt(ffParams.valuesSchema, ffInfos[i].path),
                             ffInfos[i].isHidden)

\* A leaf with hidden: false and x-onyxia.hidden: true is not hidden.
C6_Witness ==
    /\ ffResult.isCalled
    /\ \E i \in 1..Len(ffInfos) :
          LET d == nodeAt(ffParams.valuesSchema, ffInfos[i].path)
          IN  /\ d.hidden = HiddenBoolean(FALSE)
              /\ d.xOnyxiaHidden = "true"
              /\ ffInfos[i].isHidden = HiddenBoolean(FALSE)

\* The leaves whose value, as supplied in formFieldsValueDifferentFromDefault,
\* does not match the x-security pattern they declare.
C7_Violating(paths) ==
    { [path |-> path, value |-> findValue(ffParams.formFieldsValueDifferentFromDefault,
                                          path).value] :
        path \in { q \in paths :
            /\ nodeAt(ffParams.valuesSchema, q).xSecurityPattern # Absent
            /\ findValue(ffParams.formFieldsValueDifferentFromDefault, q).found
            /\ ~RegExpTest(nodeAt(ffParams.valuesSchema, q).xSecurityPattern,
                           findValue(ffParams.formFieldsValueDifferentFromDefault, q).value) } }

C7_Listed(paths) ==
    /\ Range(ffSensitive.list) = C7_Violating(paths)
    /\ Len(ffSensitive.list) = Cardinality(C7_Violating(paths))

\* C7 as stated: when sensitive values are detected, every leaf, whatever its
\* kind, that declares an x-security pattern and whose supplied value does not
\* match it is listed in sensitiveConfigurations with its path and value, and
\* no other field is listed.
C7_AsStated ==
    ffResult.isCalled /\ ffSensitive.isDefined =>
        C7_Listed(LeafPaths(ffParams.valuesSchema))

\* C7 amended: the same of every leaf that gives a text field (type text or
\* password); the leaves of another kind are never listed.
C7_TextFieldsOnly ==
    ffResult.isCalled /\ ffSensitive.isDefined =>
        /\ \A i \in 1..Len(ffFields) : hasNodeAt(ffParams.valuesSchema, ffFields[i].path)
        /\ C7_Listed({ ffFields[i].path : i \in { j \in 1..Len(ffFields) :
                          ffFields[j].type \in {"text", "password"} } })

\* Two text fields declare a pattern and were given a value: the one whose
\* value matches is not listed, the other one is.
C7_Witness ==
    /\ ffResult.isCalled
    /\ ffSensitive.isDefined
    /\ Len(ffSensitive.list) = 1
    /\ \E i \in 1..Len(ffFields) :
          /\ ffFields[i].type = "text"
          /\ nodeAt(ffParams.valuesSchema, ffFields[i].path).xSecurityPattern # Absent
          /\ findValue(ffParams.formFieldsValueDifferentFromDefault, ffFields[i].path).found
          /\ ffFields[i].path \notin { ffSensitive.list[k].path : k \in 1..Len(ffSensitive.list) }

C8_FieldPerLeaf ==
    /\ Len(ffFields) = Len(ffInfos)
    /\ \A i \in 1..Len(ffFields) : ffFields[i].path = ffInfos[i].path
    /\ { ffFields[i].path : i \in 1..Len(ffFields) } = LeafPaths(ffParams.valuesSchema)
    /\ Len(ffFields) = Cardinality(LeafPaths(ffParams.valuesSchema))

\* C8 as stated: getInitialFormFields gives one form field and one visibility
\* entry per leaf of the values schema: both lists have the same length and
\* the same path at each index, the paths are the chains of property keys
\* from the root to the leaves, in depth-first declaration order, and an
\* object that has `properties` is traversed and is no field itself.
C8_AsStated ==
    ffResult.isCalled =>
        /\ C8_FieldPerLeaf
        /\ \A i, j \in 1..Len(ffFields) :
              i < j => isBefore(declarationIndexes(ffParams.valuesSchema, ffFields[i].path),
                                declarationIndexes(ffParams.valuesSchema, ffFields[j].path))

\* C8, amended: getInitialFormFields gives one form field and one visibility
\* entry per leaf of the values schema: both lists have the same length and
\* the same path at each index, the paths are the chains of property keys
\* from the root to the leaves, depth first, the keys of each object in the
\* order of Object.entries (the keys that are array indexes first, in
\* ascending numeric order, then the other keys in declaration order), and an
\* object that has `properties` is traversed and is no field itself.
C8_OneFieldPerLeaf ==
    ffResult.isCalled =>
        /\ C8_FieldPerLeaf
        /\ \A i, j \in 1..Len(ffFields) :
              i < j => isBefore(entryIndexes(ffParams.valuesSchema, ffFields[i].path),
                                entryIndexes(ffParams.valuesSchema, ffFields[j].path))
        /\ \A i, j \in 1..Len(ffFields) :
              (/\ i < j
               /\ \A k \in 1..Len(ffFields[i].path) : ffFields[i].path[k] \notin {"2", "10"}
               /\ \A k \in 1..Len(ffFields[j].path) : ffFields[j].path[k] \notin {"2", "10"})
                  => isBefore(declarationIndexes(ffParams.valuesSchema, ffFields[i].path),
                              declarationIndexes(ffParams.valuesSchema, ffFields[j].path))

\* A schema whose first property (k2) is an object that declares "10" before
\* "2" and whose second property is "2" has given three fields: the one of
\* "2", then those of k2, "2" before "10".
C8_Witness ==
    /\ ffResult.isCalled
    /\ Len(ffFields) = 3
    /\ ffFields[1].path = <<"2">>
    /\ ffFields[2].path = <<"k2", "2">>
    /\ ffFields[3].path = <<"k2", "10">>
    /\ declarationIndexes(ffParams.valuesSchema, <<"2">>) = <<2>>
    /\ declarationIndexes(ffParams.valuesSchema, <<"k2", "10">>) = <<1, 1>>

\* C25: sensitive values are looked for exactly when the restorable
\* configuration is reported as saved.  When it is not, getInitialFormFields
\* returns sensitiveConfigurations undefined, no field is flagged whatever
\* its value and pattern, and `initialized` is handed an empty list.
C25_DetectionOnlyWhenSaved ==
    ffResult.isCalled =>
        /\ ffSensitive.isDefined <=> ffParams.isRestorableConfigSaved
        /\ ~ffParams.isRestorableConfigSaved =>
              /\ ffSensitive.list = << >>
              /\ sensitiveConfigurationsOrEmpty(ffSensitive) = << >>

\* The configuration is not saved and a text field declares a pattern that
\* the value supplied for it does not match: nothing is flagged.
C25_Witness ==
    /\ ffResult.isCalled
    /\ ~ffParams.isRestorableConfigSaved
    /\ ~ffSensitive.isDefined
    /\ \E i \in 1..Len(ffFields) :
          LET node == nodeAt(ffParams.valuesSchema, ffFields[i].path)
              found == findValue(ffParams.formFieldsValueDifferentFromDefault,
                                 ffFields[i].path)
          IN  /\ ffFields[i].type = "text"
              /\ node.xSecurityPattern # Absent
              /\ found.found
              /\ ~RegExpTest(node.xSecurityPattern, found.value)

-----------------------------------------------------------------------------
(* Claims on launch *)

isLaunchOfReady(launch) == launch.pc # "assertion failed"

C4_TraceOf(launch) ==
    IF launch.pc = "resolved"
    THEN /\ Len(launch.trace) = 3
         /\ launch.trace[1] = dispatched("launchStarted")
         /\ launch.trace[2].kind = "onyxiaApi"
         /\ launch.trace[2].method = "helmInstall"
         /\ launch.trace[3] = dispatched("launchCompleted")
    ELSE /\ Len(launch.trace) = 2
         /\ launch.trace[1] = dispatched("launchStarted")
         /\ launch.trace[2].kind = "onyxiaApi"
         /\ launch.trace[2].method = "helmInstall"

C4_Step ==
    /\ Len(launches') >= Len(launches)
    /\ \A n \in 1..Len(launches') :
          IF n > Len(launches)
          THEN launcherState.stateDescription = "ready"
                   => /\ isLaunchOfReady(launches'[n])
                      /\ launches'[n].trace[2].params =
                             [helmReleaseName |-> helmReleaseName(launcherState),
                              catalogId |-> launcherState.catalogId,
                              chartName |-> launcherState.chartName,
                              chartVersion |-> launcherState.chartVersion,
                              values |->
                                  formFieldsValueToObject(launcherState.formFields)]
          ELSE /\ launches[n].pc # "awaiting helmInstall" => launches'[n] = launches[n]
               /\ isLaunchOfReady(launches[n])
                      => /\ launches'[n].trace[1] = launches[n].trace[1]
                         /\ launches'[n].trace[2] = launches[n].trace[2]

\* C4: a launch made when the launcher is ready dispatches launchStarted, then
\* calls helmInstall once, with the release name, catalogId, chartName and
\* chartVersion of the state and the values object of its form fields, and
\* dispatches launchCompleted after that, only once helmInstall has resolved:
\* a launch whose helmInstall was rejected never dispatches it.
C4_LaunchCompletedOnlyAfterResolve ==
    /\ [](\A n \in 1..Len(launches) :
            isLaunchOfReady(launches[n]) => C4_TraceOf(launches[n]))
    /\ [][C4_Step]_vars

\* Two launches were made on a ready launcher, the form having been edited in
\* between: the first helmInstall was rejected, the second resolved.
C4_Witness ==
    /\ Len(launches) = 2
    /\ launches[1].pc = "rejected"
    /\ launches[2].pc = "resolved"
    /\ launches[1].trace[2].params.values # launches[2].trace[2].params.values
    /\ launches[2].trace[2].params.values =
           formFieldsValueToObject(launcherState.formFields)

-----------------------------------------------------------------------------
(* Claims on initialize and changeChartVersion *)

callerRuns == SelectSeq([i \in 1..Len(runs) |-> i],
                        LAMBDA i : runs[i].startedBy = "caller")

\* The caller has called the cleanup of its last call of initialize.
callerHasCleanedUp ==
    /\ callerRuns # << >>
    /\ runs[callerRuns[Len(callerRuns)]].cleanupCalls > 0

\* C12 as stated: once the caller has called the cleanup of its call of
\* initialize, and until it calls initialize again, the launcher state is
\* 'not initialized', whatever has happened since; and the assertion of
\* initialize never fails for the caller.
C12_NotInitializedAfterCleanup ==
    /\ callerHasCleanedUp => launcherState.stateDescription = "not initialized"
    /\ lnEvent.name = "initialize" => ~lnEvent.threw

\* C13 as stated: at no time are there two runs of initialize whose context
\* is not done.
C13_AtMostOneLiveRun == Len(liveRuns(runs)) <= 1

isBeforeIn(trace, first, second) ==
    \E m, n \in 1..Len(trace) : m < n /\ trace[m] = first /\ trace[n] = second

nbOf(trace, actionName) ==
    Cardinality({ n \in 1..Len(trace) : trace[n] = actionName })

\* C14: a run whose cleanup was called before its loading had finished has
\* dispatched reset, once, and dispatches neither initialized nor
\* defaultChartVersionSelected, whenever its pending requests are answered:
\* in the trace of a run nothing comes after reset.
C14_CancelledRunNeverInitializes ==
    \A i \in 1..Len(runs) :
        /\ runs[i].cleanupCalls > 0 => runs[i].ctx = "done"
        /\ runs[i].ctx = "done" <=> nbOf(runs[i].trace, "reset") = 1
        /\ nbOf(runs[i].trace, "reset") <= 1
        /\ ~isBeforeIn(runs[i].trace, "reset", "initialized")
        /\ ~isBeforeIn(runs[i].trace, "reset", "defaultChartVersionSelected")

\* The caller cleaned up while chart infos were being fetched; the three
\* requests of the run have been answered since, and no version was pinned.
C14_Witness ==
    \E i \in 1..Len(runs) :
        /\ runs[i].startedBy = "caller"
        /\ runs[i].cleanupCalls = 1
        /\ runs[i].projectChanges = 0
        /\ runs[i].params.chartVersion = Undefined
        /\ runs[i].pc = "finished"
        /\ runs[i].trace = << "initializationStarted", "reset" >>

C15_Restarted(i) ==
    /\ runs'[i] = [runs[i] EXCEPT !.ctx = "done",
                                  !.trace = Append(@, "reset"),
                                  !.projectChanges = @ + 1]
    /\ Cardinality({ j \in (Len(runs) + 1)..Len(runs') : runs'[j].parent = i }) = 1
    /\ \E j \in (Len(runs) + 1)..Len(runs') :
          /\ runs'[j].parent = i
          /\ runs'[j].startedBy = "projectChanged"
          /\ runs'[j].params = runs[i].params
          /\ runs'[j].ctx = "live"
          /\ runs'[j].pc = "getChartInfos"
          /\ runs'[j].trace = << "initializationStarted" >>

C15_Step ==
    lnEvent'.name = "projectChanged" /\ Len(runs') >= Len(runs)
        => /\ ~lnEvent'.threw
           /\ Len(lnEvent'.dispatched) = 2 * Len(liveRuns(runs))
           /\ \A k \in 1..Len(lnEvent'.dispatched) :
                 lnEvent'.dispatched[k] =
                     IF k % 2 = 1 THEN "reset" ELSE "initializationStarted"
           /\ \A i \in 1..Len(runs) :
                 IF runs[i].ctx = "live" THEN C15_Restarted(i)
                 ELSE runs'[i] = runs[i]
           /\ \A j \in (Len(runs) + 1)..Len(runs') :
                 runs'[j].parent \in 1..Len(runs) /\ runs[runs'[j].parent].ctx = "live"

\* C15: a projectChanged action cancels every run that is live, reset being
\* dispatched, and starts for it a run with the same parameters; a run whose
\* context is done, by its cleanup or by an earlier project change, does not
\* react, so that a run reacts to one such action at most.
C15_ProjectChangedRestarts ==
    /\ [][C15_Step]_vars
    /\ [](\A i \in 1..Len(runs) :
            /\ runs[i].projectChanges <= 1
            /\ runs[i].cleanupCalls > 0 /\ runs[i].projectChanges = 1
                  => isBeforeIn(runs[i].trace, "initializationStarted", "reset"))

\* The project changed twice: the run of the caller was restarted, and the run
\* that replaced it was restarted in turn, with the parameters of the caller.
C15_Witness ==
    /\ Len(runs) = 3
    /\ lnEvent.name = "projectChanged"
    /\ runs[1].startedBy = "caller" /\ runs[1].projectChanges = 1
    /\ runs[2].parent = 1 /\ runs[2].projectChanges = 1 /\ runs[2].ctx = "done"
    /\ runs[3].parent = 2 /\ runs[3].ctx = "live"
    /\ runs[3].params = runs[1].params

C16_Step ==
    lnEvent'.name = "changeChartVersion"
        => IF \/ launcherState.stateDescription # "ready"
              \/ launcherState.chartVersion = lnEvent'.params.chartVersion
           THEN /\ launcherState' = launcherState
                /\ runs' = runs
                /\ lnEvent'.dispatched = << >>
           ELSE /\ lnEvent'.dispatched = << "reset", "initializationStarted" >>
                /\ ~lnEvent'.threw
                /\ launcherState'.stateDescription = "not initialized"
                /\ Len(runs') = Len(runs) + 1
                /\ SubSeq(runs', 1, Len(runs)) = runs
                /\ runs'[Len(runs')].ctx = "live"
                /\ runs'[Len(runs')].params =
                      [catalogId |-> launcherState.catalogId,
                       chartName |-> launcherState.chartName,
                       chartVersion |-> lnEvent'.params.chartVersion,
                       formFieldsValueDifferentFromDefault |->
                           formFieldsValueDifferentFromDefault(launcherState)]

\* C16: changeChartVersion(v) changes nothing and dispatches nothing when the
\* launcher is not ready or v is its chart version; otherwise it dispatches
\* reset and starts initialize on the same catalogId and chartName, with
\* version v and the values that differ from their defaults when it is called.
C16_ChangeChartVersionFrame == [][C16_Step]_vars

\* The user changed a value of version 2.0.0, then asked for version 1.0.0:
\* the run that was started has that value in its parameters.
C16_Witness ==
    /\ lnEvent.name = "changeChartVersion"
    /\ lnEvent.dispatched # << >>
    /\ runs[Len(runs)].startedBy = "changeChartVersion"
    /\ runs[Len(runs)].params.chartVersion = "1.0.0"
    /\ runs[Len(runs)].params.formFieldsValueDifferentFromDefault =
          << [path |-> <<"resources", "cpu">>, value |-> "v2"] >>

\* What a run that is not cancelled dispatches, in order.
C24_Expected(run) ==
    << "initializationStarted", "initialized" >>
        \o (IF run.params.chartVersion = Undefined
            THEN << "defaultChartVersionSelected" >> ELSE << >>)

\* C24: a run dispatches initializationStarted first.  Until chart infos,
\* chart details and the deployment context have all been obtained it
\* dispatches nothing else, but reset if it is cancelled.  A run that was not
\* cancelled before that has then dispatched initialized, once, followed by
\* defaultChartVersionSelected exactly when no chart version was pinned.
C24_InitializedOnce ==
    \A i \in 1..Len(runs) :
        LET run == runs[i]
        IN  /\ run.trace[1] = "initializationStarted"
            /\ nbOf(run.trace, "initializationStarted") = 1
            /\ nbOf(run.trace, "initialized") <= 1
            /\ run.pc # "finished" =>
                  run.trace \in { << "initializationStarted" >>,
                                  << "initializationStarted", "reset" >> }
            /\ (run.pc = "finished" /\ run.ctx = "live") =>
                  run.trace = C24_Expected(run)
            /\ (run.pc = "finished" /\ run.ctx = "done") =>
                  run.trace \in { C24_Expected(run) \o << "reset" >>,
                                  << "initializationStarted", "reset" >> }

\* Two runs have finished without being cancelled before: one called without
\* a pinned version, which dispatched defaultChartVersionSelected, and one
\* started for a pinned version, which did not.
C24_Witness ==
    \E i, j \in 1..Len(runs) :
        /\ runs[i].pc = "finished" /\ runs[j].pc = "finished"
        /\ runs[i].params.chartVersion = Undefined
        /\ Len(runs[i].trace) >= 3
        /\ SubSeq(runs[i].trace, 1, 3) = C24_Expected(runs[i])
        /\ runs[j].params.chartVersion # Undefined
        /\ runs[j].ctx = "live"
        /\ runs[j].trace = << "initializationStarted", "initialized" >>

-----------------------------------------------------------------------------
(* Claims on getChartInfos *)

\* The chart that ciParams names, in the catalog "ide".
C23_Chart ==
    LET charts == ciParams.answer.chartsByCatalogId.ide
    IN  CHOOSE chart \in Range(charts) : chart.name = ciParams.chartName

C23_VersionsOf(chart) == { chart.versions[i].version : i \in 1..Len(chart.versions) }

\* C23: getChartInfos, when the catalog and the chart exist, does not fail and
\* selects the pinned version when one is given and is among the versions of
\* the chart, the default version of the chart when none is pinned, and the
\* default version after an alert when the pinned one is not among them;
\* chartIconUrl is the icon of the selected version and
\* availableChartVersions lists every version of the chart, in order.
C23_ChartVersionSelected ==
    (ciResult.isCalled /\ ciParams.catalogId = "ide") =>
        LET chart == C23_Chart
            pinned == ciParams.pinnedChartVersion
        IN  /\ ~ciResult.threw
            /\ pinned = Undefined =>
                  /\ ciResult.chartVersion = getDefaultVersion(chart)
                  /\ ~ciResult.alerted
            /\ pinned \in C23_VersionsOf(chart) =>
                  /\ ciResult.chartVersion = pinned
                  /\ ~ciResult.alerted
            /\ (pinned # Undefined /\ pinned \notin C23_VersionsOf(chart)) =>
                  /\ ciResult.chartVersion = getDefaultVersion(chart)
                  /\ ciResult.alerted
            /\ \E i \in 1..Len(chart.versions) :
                  /\ chart.versions[i].version = ciResult.chartVersion
                  /\ chart.versions[i].iconUrl = ciResult.chartIconUrl
            /\ Len(ciResult.availableChartVersions) = Len(chart.versions)
            /\ \A i \in 1..Len(chart.versions) :
                  ciResult.availableChartVersions[i] = chart.versions[i].version

\* Version 3.0.0 was pinned for a chart that has two other versions: the user
\* was alerted and the default version is selected, with its icon.
C23_Witness ==
    /\ ciResult.isCalled
    /\ ciParams.catalogId = "ide" /\ ciParams.chartName = "jupyter"
    /\ ciParams.pinnedChartVersion = "3.0.0"
    /\ ~ciResult.threw
    /\ ciResult.alerted
    /\ Len(ciResult.availableChartVersions) = 2
    /\ ciResult.chartVersion = ciResult.availableChartVersions[1]
    /\ ciResult.chartVersion # "3.0.0"

-----------------------------------------------------------------------------
(* Claims on getXOnyxiaContext *)
(* The project, the configs and the region of a claim are those the thunk   *)
(* read, as they were in the store when it read them.                       *)

C9_IsInjected ==
    \/ ctxResult.read.project.group = Undefined
    \/ ~ctxResult.read.paramsOfBootstrapCore.disablePersonalInfosInjectionInGroup

C9_NothingPersonal ==
    /\ ctxResult.status = "resolved"
    /\ ctxResult.xOnyxiaContext.user.ip = "0.0.0.0"
    /\ ctxResult.xOnyxiaContext.git =
           [name |-> "", email |-> "", credentials_cache_duration |-> 0,
            token |-> Undefined]
    /\ ctxResult.xOnyxiaContext.vault.VAULT_TOKEN = ""
    /\ ctxResult.xOnyxiaContext.kaggleApiToken = Undefined
    /\ ctxResult.calls = NoCalls

C9_UsersOwn ==
    ctxResult.status = "resolved"
        => /\ ctxResult.xOnyxiaContext.user.ip = ctxResult.read.publicIp
           /\ ctxResult.xOnyxiaContext.git =
                  [name |-> ctxResult.read.userConfigs.gitName,
                   email |-> ctxResult.read.userConfigs.gitEmail,
                   credentials_cache_duration |->
                       ctxResult.read.userConfigs.gitCredentialCacheDuration,
                   token |-> IF ctxResult.read.userConfigs.githubPersonalAccessToken = Null
                             THEN Undefined
                             ELSE ctxResult.read.userConfigs.githubPersonalAccessToken]
           /\ ctxResult.xOnyxiaContext.kaggleApiToken =
                  IF ctxResult.read.userConfigs.kaggleApiToken = Null
                  THEN Undefined
                  ELSE ctxResult.read.userConfigs.kaggleApiToken
           /\ has(ctxResult.read.region, "vault")
                  => /\ ctxResult.xOnyxiaContext.vault.VAULT_TOKEN =
                            ctxResult.read.secretsManagerToken.token
                     /\ ctxResult.calls.secretsManagerGetToken = 1

\* C9: personal information is injected exactly when the project has no group
\* or disablePersonalInfosInjectionInGroup is not set.  When it is not, the
\* context has ip 0.0.0.0, an empty git name and email, a cache duration of 0,
\* no git token, an empty VAULT_TOKEN and no kaggleApiToken, whatever the
\* user's values, and getToken is called on neither secretsManager nor
\* s3Client; when it is, the context carries the user's own values.
C9_PersonalInfosInjection ==
    /\ ctxResult.status \in {"resolved", "rejected"}
           => IF C9_IsInjected THEN C9_UsersOwn ELSE C9_NothingPersonal
    /\ (has(ctxResult, "read") /\ ~C9_IsInjected) => ctxResult.calls = NoCalls

\* A group project with the injection disabled, in a region with a vault and
\* STS, of a user who has a GitHub and a Kaggle token: the context is built.
C9_Witness ==
    /\ ctxResult.status = "resolved"
    /\ ~C9_IsInjected
    /\ has(ctxResult.read.region, "vault")
    /\ regionHasSts(ctxResult.read.region)
    /\ ~has(ctxResult.read.customS3Configs, "indexForXOnyxia")
    /\ ctxResult.read.userConfigs.githubPersonalAccessToken = "ghp"
    /\ ctxResult.read.userConfigs.kaggleApiToken = "kgl"
    /\ ctxResult.read.userConfigs.gitCredentialCacheDuration = 3600

\* The s3 block comes from the region's STS: no custom S3 config is selected
\* for injection and the region has s3Params with sts.
C21_FromSts ==
    /\ ctxResult.status = "resolved"
    /\ ~has(ctxResult.read.customS3Configs, "indexForXOnyxia")
    /\ has(ctxResult.read.region, "s3Params")
    /\ has(ctxResult.read.region.s3Params, "sts")

\* C21: with S3 credentials from the region's STS, AWS_BUCKET_NAME is, in
\* 'multi' bucket mode, bucketNamePrefix followed by the username for a project
\* without group and bucketNamePrefixGroup followed by the group for a group
\* project; in 'shared' mode it is the configured bucketName.
C21_BucketNameByProject ==
    C21_FromSts =>
        LET workingDirectory == ctxResult.read.region.s3Params.workingDirectory
        IN  ctxResult.xOnyxiaContext.s3.AWS_BUCKET_NAME =
                IF workingDirectory.bucketMode = "shared"
                THEN workingDirectory.bucketName
                ELSE IF ctxResult.read.projectAtS3.group = Undefined
                THEN workingDirectory.bucketNamePrefix \o ctxResult.read.user.username
                ELSE workingDirectory.bucketNamePrefixGroup
                         \o ctxResult.read.projectAtS3.group

C22_Url(url) ==
    [host |-> url.host, port |-> IF "port" \in DOMAIN url THEN url.port ELSE 443]

C22_S3 == ctxResult.xOnyxiaContext.s3

C22_FromProjectConfig ==
    LET dataSource == ctxResult.read.customS3Configs.availableConfigs[
                          ctxResult.read.customS3Configs.indexForXOnyxia]
    IN  /\ C22_S3.AWS_ACCESS_KEY_ID = dataSource.accessKeyId
        /\ C22_S3.AWS_SECRET_ACCESS_KEY = dataSource.secretAccessKey
        /\ C22_S3.AWS_SESSION_TOKEN =
               (IF dataSource.sessionToken = Undefined THEN ""
                ELSE dataSource.sessionToken)
        /\ C22_S3.AWS_DEFAULT_REGION = dataSource.region
        /\ C22_S3.AWS_BUCKET_NAME = dataSource.workingDirectoryPath[1]
        /\ C22_S3.AWS_S3_ENDPOINT = C22_Url(dataSource.url).host
        /\ C22_S3.port = C22_Url(dataSource.url).port
        /\ ctxResult.calls.s3ClientGetToken = 0

C22_Empty ==
    /\ C22_S3.AWS_ACCESS_KEY_ID = "" /\ C22_S3.AWS_SECRET_ACCESS_KEY = ""
    /\ C22_S3.AWS_SESSION_TOKEN = "" /\ C22_S3.AWS_BUCKET_NAME = ""
    /\ C22_S3.AWS_DEFAULT_REGION = "" /\ C22_S3.AWS_S3_ENDPOINT = ""
    /\ C22_S3.port = 0
    /\ C22_S3.pathStyleAccess = TRUE
    /\ ctxResult.calls.s3ClientGetToken = 0

C22_FromRegion ==
    LET s3Params == ctxResult.read.region.s3Params
    IN  /\ C22_S3.AWS_S3_ENDPOINT = C22_Url(s3Params.url).host
        /\ C22_S3.port = C22_Url(s3Params.url).port
        /\ IF C9_IsInjected
           THEN /\ C22_S3.AWS_ACCESS_KEY_ID = ctxResult.read.s3ClientToken.accessKeyId
                /\ C22_S3.AWS_SECRET_ACCESS_KEY = ctxResult.read.s3ClientToken.secretAccessKey
                /\ C22_S3.AWS_SESSION_TOKEN = ctxResult.read.s3ClientToken.sessionToken
                /\ ctxResult.calls.s3ClientGetToken = 1
           ELSE /\ C22_S3.AWS_ACCESS_KEY_ID = ""
                /\ C22_S3.AWS_SECRET_ACCESS_KEY = ""
                /\ C22_S3.AWS_SESSION_TOKEN = ""
                /\ ctxResult.calls.s3ClientGetToken = 0

\* C22: the s3 block of a context that was built is chosen by precedence.  With
\* a custom S3 config selected for injection, it carries that config's keys,
\* session token ("" when absent), region, bucket, host and port, whatever the
\* region and the injection; otherwise, without STS in the region, its strings
\* are empty, its port 0 and pathStyleAccess true; otherwise it carries the
\* host and port of the region's URL and the credentials of s3Client.getToken,
\* or empty ones when personal infos are not injected.  The port is 443 when
\* the URL used has none.
C22_S3ByPrecedence ==
    ctxResult.status = "resolved" =>
        IF "indexForXOnyxia" \in DOMAIN ctxResult.read.customS3Configs
        THEN C22_FromProjectConfig
        ELSE IF ~("s3Params" \in DOMAIN ctxResult.read.region
                  /\ "sts" \in DOMAIN ctxResult.read.region.s3Params)
        THEN C22_Empty
        ELSE C22_FromRegion

\* A context built from a custom S3 config whose URL has no port, in a region
\* that has STS and for a project whose personal infos are not injected.
C22_Witness ==
    /\ ctxResult.status = "resolved"
    /\ has(ctxResult.read.customS3Configs, "indexForXOnyxia")
    /\ ~has(ctxResult.read.customS3Configs.availableConfigs[1].url, "port")
    /\ ctxResult.xOnyxiaContext.s3.port = 443
    /\ has(ctxResult.read.region, "s3Params")
    /\ has(ctxResult.read.region.s3Params, "sts")
    /\ has(ctxResult.read.region.s3Params.url, "port")
    /\ ~C9_IsInjected

====
